---- MODULE Spec2Model ----
(***************************************************************************)
(* The unified file-storage layer of FlashbackBot: the Dropbox adapter     *)
(* (DropboxFileHandler with its reader, writer and appender), the S3       *)
(* adapter (S3FileHandler) and the Logger that writes its log file through *)
(* the adapter it logs for.                                                *)
(*                                                                         *)
(* Every method of the source is an operator over a record `s` that holds  *)
(* the adapter's fields and returns a result record                        *)
(*     [s |-> the fields afterwards, st |-> "ok" or the exception raised,  *)
(*      v |-> the value returned].                                         *)
(* st = "Blocked" means the calling thread waits for a lock it holds       *)
(* itself (threading.Lock is not re-entrant); st = "Wait" means it waits   *)
(* for a lock another thread holds.  Neither is an exception: no except    *)
(* clause catches them.                                                    *)
(*                                                                         *)
(* Threads call the public methods.  A call is cut into segments at the    *)
(* places where the code reads use_cache to choose its path, where the     *)
(* flush takes the lock and between the items the flush writes, so that    *)
(* other threads can run in between.                                       *)
(***************************************************************************)
EXTENDS Integers, Sequences, FiniteSets, TLC

(***************************************************************************)
(* Bounds of the model.                                                    *)
(***************************************************************************)
MaxLen == 2
MaxCalls == 3
MaxLog == 3
RecursionLimit == 3
\* the clock runs from 0 to MaxNow; a token lives at most MaxExpiresIn
MaxNow == 3
MaxExpiresIn == 2
\* the unit of size: the number of elements of a payload that stand for
\* 1024 * 1024 bytes.  An element of a payload is one block of that size,
\* so that payloads around the chunk size and the large file limit are
\* sequences of a few elements.
MiB == 1

Threads == {1, 2}
UserPaths == {"f"}
LogPath == "fh_log.log"
AllPaths == UserPaths \cup {LogPath}

(***************************************************************************)
(* Program constants.                                                      *)
(***************************************************************************)
LOG_NONE == 0
LOG_INFO == 1
LOG_DEBUG == 2
LOG_PARANOID == 3
NoLogger == 0 - 1
InitialLargeFileLimit == 150 * MiB
ChunkSize == 4 * MiB
SubtractSizeMb == 5

(***************************************************************************)
(* Content: Python str (a sequence of code points) or bytes (a sequence of *)
(* byte values).  None is the absent value.                                *)
(***************************************************************************)
Str(v) == [t |-> "str", v |-> v]
Bytes(v) == [t |-> "bytes", v |-> v]
None == [t |-> "none", v |-> <<>>]
\* what the Dropbox store holds at a path that is a folder
Folder == [t |-> "folder", v |-> <<>>]
True == [t |-> "bool", v |-> <<1>>]
False == [t |-> "bool", v |-> <<0>>]
\* a Python int, as a value that a method returns
IntVal(n) == [t |-> "int", v |-> <<n>>]
\* a bytearray: a value that is neither str nor bytes, can be sliced, and to which bytes can be added
ByteArray(v) == [t |-> "bytearray", v |-> v]
IsStr(c) == c.t = "str"
IsBytes(c) == c.t = "bytes"

\* str.encode("utf-8") of one code point (one- and two-byte forms).
EncodeChar(c) == IF c < 128 THEN <<c>> ELSE <<192 + (c \div 64), 128 + (c % 64)>>

RECURSIVE EncodeSeq(_)
EncodeSeq(cs) == IF cs = <<>> THEN <<>> ELSE EncodeChar(Head(cs)) \o EncodeSeq(Tail(cs))

\* bytes.decode("utf-8"): [ok |-> FALSE] is UnicodeDecodeError.
RECURSIVE DecodeSeq(_)
DecodeSeq(bs) ==
    IF bs = <<>> THEN [ok |-> TRUE, v |-> <<>>]
    ELSE IF Head(bs) < 128
         THEN LET r == DecodeSeq(Tail(bs))
              IN  [ok |-> r.ok, v |-> <<Head(bs)>> \o r.v]
         ELSE IF Head(bs) >= 194 /\ Head(bs) <= 223 /\ Len(bs) >= 2
                 /\ bs[2] >= 128 /\ bs[2] <= 191
              THEN LET r == DecodeSeq(Tail(Tail(bs)))
                   IN  [ok |-> r.ok, v |-> <<(Head(bs) - 192) * 64 + (bs[2] - 128)>> \o r.v]
              ELSE [ok |-> FALSE, v |-> <<>>]

\* data.encode("utf-8") if isinstance(data, str) else data
ToBytes(c) == IF IsStr(c) THEN Bytes(EncodeSeq(c.v)) ELSE c
ByteLen(c) == Len(ToBytes(c).v)

\* "message + \n" of Logger._write_to_file; of the formatted message
\* (timestamp, logger name, level, text) the line feed is kept.
LogLine == Str(<<10>>)

(***************************************************************************)
(* The cache: a Python dict, which keeps its keys in insertion order.      *)
(***************************************************************************)
DictHas(d, k) == \E i \in 1..Len(d) : d[i].k = k
DictIdx(d, k) == CHOOSE i \in 1..Len(d) : d[i].k = k
DictGet(d, k) == d[DictIdx(d, k)].v
DictSet(d, k, v) ==
    IF DictHas(d, k) THEN [d EXCEPT ![DictIdx(d, k)] = [k |-> k, v |-> v]]
    ELSE Append(d, [k |-> k, v |-> v])
DictKeys(d) == {d[i].k : i \in 1..Len(d)}

(***************************************************************************)
(* Result records and exception classes.                                   *)
(***************************************************************************)
Ret(s, v) == [s |-> s, st |-> "ok", v |-> v]
Raise(s, e) == [s |-> s, st |-> e, v |-> None]
Ok(r) == r.st = "ok"
Stuck(r) == r.st \in {"Blocked", "Wait"}
\* dropbox ApiError / botocore ClientError; "ApiNotFound" is the one whose
\* error is a path error with is_not_found().
IsApiError(r) == r.st \in {"ApiError", "ApiNotFound", "ApiConflict"}
\* requests ConnectionError; "Timeout" carries "The write operation timed out".
IsConnectionError(r) == r.st \in {"ConnectionError", "Timeout"}
\* UnicodeDecodeError is a subclass of ValueError.
IsValueError(r) == r.st \in {"ValueError", "UnicodeDecodeError"}
\* Sequencing: run F on the state of r when r returned normally.
Then(r, F(_)) == IF Ok(r) THEN F(r.s) ELSE r
\* try: r except ...: H, the handlers H of the except clauses run on a
\* result that raised (a thread that blocks runs no handler)
Catch(r, H(_)) == IF Ok(r) \/ Stuck(r) THEN r ELSE H(r)

(***************************************************************************)
(* threading.Lock                                                          *)
(***************************************************************************)
Locked(s) == s.lock # 0
Acquire(s) ==
    IF s.lock = 0 THEN Ret([s EXCEPT !.lock = s.me], None)
    ELSE IF s.lock = s.me THEN Raise(s, "Blocked")
    ELSE Raise(s, "Wait")
Release(s) == [s EXCEPT !.lock = 0]
\* the end of a "with self.lock:" block, on every way out of it
Unlock(r) == IF Stuck(r) THEN r ELSE [r EXCEPT !.s = Release(r.s)]
\* a statement inside a "with self.lock:" block: an exception leaves the
\* block, a normal end stays in it
Inside(r) == IF Ok(r) THEN r ELSE Unlock(r)

(***************************************************************************)
(* Accesses to the cache dict.  `unlocked` records that the dict was read  *)
(* or written by a thread that did not hold the lock at that moment.       *)
(***************************************************************************)
Touch(s) == [s EXCEPT !.unlocked = @ \/ (s.lock # s.me)]
CacheHas(s, k) == DictHas(s.cache, k)
CacheGet(s, k) == DictGet(s.cache, k)
CachePut(s, k, v) == [Touch(s) EXCEPT !.cache = DictSet(s.cache, k, v)]

(***************************************************************************)
(* The remote store and its requests.  The fault chosen for a call makes   *)
(* the request number fault.at of that call fail.                          *)
(***************************************************************************)
Injected(s) == s.fault.kind # "none" /\ s.rc = s.fault.at
Req(s) == [s EXCEPT !.rc = @ + 1]
FaultExc(s) ==
    CASE s.fault.kind = "ApiOther" -> "ApiError"
      [] s.fault.kind = "PathNotFound" -> "ApiNotFound"
      [] s.fault.kind = "Timeout" -> "Timeout"
      [] OTHER -> "ConnectionError"

\* files_download / get_object; a folder is no file
Download(s, path) ==
    IF Injected(s) THEN Raise(Req(s), FaultExc(s))
    ELSE IF s.remote[path] = None THEN Raise(Req(s), "ApiNotFound")
    ELSE IF s.remote[path] = Folder THEN Raise(Req(s), "ApiError")
    ELSE Ret(Req(s), s.remote[path])

\* an upload request rq leaves the adapter: a files_upload of the whole
\* payload ("upload", "add") or the start of an upload session ("start");
\* path: where a files_upload puts it; len: the bytes it carries; over:
\* they are more than large_file_limit at that moment; hit: it is the
\* request that the fault of the segment fails
Issue(s, rq, path, data) ==
    [Req(s) EXCEPT !.ups = Append(@, [rq |-> rq, path |-> path, len |-> ByteLen(data),
                                      over |-> ByteLen(data) > s.large_file_limit,
                                      hit |-> Injected(s)])]

\* files_upload(mode=overwrite) / put_object; a folder is in the way
Upload(s, path, data) ==
    IF Injected(s) THEN Raise(Issue(s, "upload", path, data), FaultExc(s))
    ELSE IF s.remote[path] = Folder THEN Raise(Issue(s, "upload", path, data), "ApiError")
    ELSE Ret([Issue(s, "upload", path, data) EXCEPT !.remote[path] = ToBytes(data)], None)

\* files_upload(mode=add): creates the file; a different file at the path
\* is a conflict.
UploadAdd(s, path, data) ==
    IF Injected(s) THEN Raise(Issue(s, "add", path, data), FaultExc(s))
    ELSE IF s.remote[path] # None /\ s.remote[path] # ToBytes(data)
         THEN Raise(Issue(s, "add", path, data), "ApiError")
    ELSE Ret([Issue(s, "add", path, data) EXCEPT !.remote[path] = ToBytes(data)], None)

\* files_get_metadata / head_object
Metadata(s, path) ==
    IF Injected(s) THEN Raise(Req(s), FaultExc(s))
    ELSE IF s.remote[path] = None THEN Raise(Req(s), "ApiNotFound")
    ELSE Ret(Req(s), s.remote[path])

Count(s) == [s EXCEPT !.num_calls = @ + 1]

Bind(r, F(_, _)) == IF Ok(r) THEN F(r.s, r.v) ELSE r
Min(a, b) == IF a < b THEN a ELSE b

\* bytes.decode("utf-8") as a step of a method
Decode(s, c) ==
    LET r == DecodeSeq(c.v)
    IN  IF r.ok THEN Ret(s, Str(r.v)) ELSE Raise(s, "UnicodeDecodeError")

\* a put that would take the lock without testing lock.locked()
LockedPutBlocking(s, k, v) ==
    Unlock(Then(Acquire(s), LAMBDA s1 : Ret(CachePut(s1, k, v), None)))

\* if self.lock.locked(): self.cache[k] = v
\* else:
\*     with self.lock: self.cache[k] = v
LockedPut(s, k, v) ==
    IF Locked(s) THEN Ret(CachePut(s, k, v), None)
    ELSE Unlock(Then(Acquire(s), LAMBDA s1 : Ret(CachePut(s1, k, v), None)))

\* LogHelpers._should_exclude with exclude_if_in_path = [".log"]
ShouldExclude(path) == path # "" /\ path = LogPath

(***************************************************************************)
(* Upload sessions of the Dropbox API.  A session is the bytes the server  *)
(* has received; an append or a finish whose cursor offset is not the      *)
(* number of bytes received is rejected.                                   *)
(***************************************************************************)
Cursor(sess, off) == [t |-> "cursor", v |-> sess, off |-> off]

\* a request of an upload session as the server receives it: the payload,
\* the offset of the cursor, and for the commit its path and write mode
Sent(s, rq, chunk, off, path, wmode) ==
    [s EXCEPT !.sent = Append(@, [rq |-> rq, chunk |-> chunk, off |-> off,
                                  path |-> path, wmode |-> wmode])]

\* files_upload_session_start(chunk)
SessionStart(s, chunk) ==
    IF Injected(s) THEN Raise(Issue(s, "start", "", Bytes(chunk)), FaultExc(s))
    ELSE Ret(Sent(Issue(s, "start", "", Bytes(chunk)), "start", chunk, 0, "", ""),
             Cursor(chunk, 0))

\* files_upload_session_append_v2(chunk, cursor)
SessionAppend(s, chunk, cur) ==
    IF Injected(s) THEN Raise(Req(s), FaultExc(s))
    ELSE IF cur.off # Len(cur.v) THEN Raise(Req(s), "ApiError")
    ELSE Ret(Sent(Req(s), "append", chunk, cur.off, "", ""),
             Cursor(cur.v \o chunk, cur.off))

\* files_upload_session_finish(chunk, cursor, CommitInfo(path, mode))
SessionFinish(s, chunk, path, wmode, cur) ==
    IF Injected(s) THEN Raise(Req(s), FaultExc(s))
    ELSE IF cur.off # Len(cur.v) THEN Raise(Req(s), "ApiError")
    ELSE IF s.remote[path] = Folder \/ (wmode = "add" /\ s.remote[path] # None)
         THEN Raise(Req(s), "ApiError")
    ELSE Ret([Sent(Req(s), "finish", chunk, cur.off, path, wmode)
                 EXCEPT !.remote[path] = Bytes(cur.v \o chunk)], None)

(***************************************************************************)
(* The Dropbox adapter.                                                    *)
(***************************************************************************)
\* self.file_handler.<name>(...): the method of the adapter that was built
RECURSIVE Method(_, _, _, _)
Args(path, data, mode, cached, d) ==
    [path |-> path, data |-> data, mode |-> mode, cached |-> cached, d |-> d]

RECURSIVE DbxLog(_, _, _)
RECURSIVE DbxWriteBody(_, _, _, _, _)
RECURSIVE DbxAppendBody(_, _, _, _, _)
RECURSIVE AppendToDropbox(_, _, _, _)
RECURSIVE AppendToCache(_, _, _, _)
RECURSIVE CombineContentToBytes(_, _, _, _)
RECURSIVE ReadFromCache(_, _, _)
RECURSIVE GetFile(_, _, _)
RECURSIVE ReadFromDropbox(_, _, _)
RECURSIVE CreateNewFile(_, _, _)
RECURSIVE WriteToDropbox(_, _, _, _)
RECURSIVE WriteToCache(_, _, _, _)
RECURSIVE UploadInChunks(_, _, _, _, _)
RECURSIVE UploadRegular(_, _, _, _, _)
RECURSIVE DbxExists(_, _)
RECURSIVE AppendChunks(_, _, _, _)

\* DropboxFileWriter.write up to the point where it reads use_cache: the
\* existence check of mode "x"
DbxWriteBegin(s, path, mode) ==
    IF "x" \in mode /\ "a" \notin mode
    THEN Then(DbxLog(s, LOG_DEBUG, ""), LAMBDA s1 :
         Bind(DbxExists(s1, path), LAMBDA s2, e :
              IF e = True THEN Raise(s2, "FileExistsError")
              ELSE Ret(s2, None)))
    ELSE Ret(s, None)

\* DropboxFileWriter.write from the point where it has read use_cache
\* (appender.append reads it for the append modes)
DbxWriteRest(s, path, data, mode, cached) ==
    IF "a" \in mode THEN DbxAppendBody(s, path, data, mode, cached)
    ELSE DbxWriteBody(s, path, data, mode, cached)

\* DropboxFileWriter.write
DbxWrite(s, path, data, mode) ==
    Then(DbxWriteBegin(s, path, mode), LAMBDA s3 :
         DbxWriteRest(s3, path, data, mode, s3.use_cache))

\* log_helper.debug/info(logger, msg, path=path) -> Logger.log ->
\* Logger._write_to_file -> file_handler.write(log_path, mode="a", ...)
DbxLog(s, level, path) ==
    IF ShouldExclude(path) THEN Ret(s, None)
    ELSE IF s.log_level = NoLogger THEN Ret(s, None)
    ELSE IF level <= s.log_level
         THEN Method(s, "dbx", "write", Args(LogPath, LogLine, {"a"}, FALSE, 0))
    ELSE Ret(s, None)

DbxWriteBody(s, path, data, mode, cached) ==
    IF cached THEN WriteToCache(s, path, data, mode)
    ELSE WriteToDropbox(s, path, data, mode)

DbxAppendBody(s, path, data, mode, cached) ==
    IF cached THEN AppendToCache(s, path, data, mode)
    ELSE AppendToDropbox(s, path, data, mode)

\* a writer that would also upload what it caches
WriteToCacheThrough(s, path, data, mode) ==
    Then(LockedPut(s, path, data), LAMBDA s1 :
    Then(Upload(s1, path, data), LAMBDA s2 : DbxLog(Count(s2), LOG_DEBUG, path)))

WriteToCache(s, path, data, mode) ==
    Then(LockedPut(s, path, data), LAMBDA s1 : DbxLog(s1, LOG_DEBUG, path))

WriteToDropbox(s, path, data, mode) ==
    LET data_size == ByteLen(data)
    IN  Then(DbxLog(s, LOG_DEBUG, path), LAMBDA s1 :
             IF data_size > s1.large_file_limit
             THEN UploadInChunks(s1, path, data, data_size, mode)
             ELSE UploadRegular(s1, path, data, data_size, mode))

CreateNewFile(s, path, new_content) ==
    Then(DbxLog(s, LOG_DEBUG, path), LAMBDA s1 :
    Then(UploadAdd(s1, path, new_content), LAMBDA s2 :
         DbxLog(Count(s2), LOG_INFO, path)))

\* a loop that would send the last byte of the chunk before with every chunk
RECURSIVE AppendChunksOverlapping(_, _, _, _)
AppendChunksOverlapping(s, data, i, cur) ==
    IF i >= Len(data) THEN Ret(s, cur)
    ELSE LET next_chunk == SubSeq(data, i, Min(i + ChunkSize, Len(data)))
         IN  Bind(SessionAppend(s, next_chunk, cur), LAMBDA s1, c1 :
                  AppendChunksOverlapping(s1, data, i + ChunkSize,
                                          Cursor(c1.v, cur.off + Len(next_chunk))))

\* an upload session that would commit with WriteMode.add
UploadInChunksAdding(s, path, data, data_size, mode) ==
    Then(DbxLog(s, LOG_DEBUG, ""), LAMBDA s1 :
        LET bytes == ToBytes(data).v
            first == SubSeq(bytes, 1, Min(ChunkSize, Len(bytes)))
        IN  Catch(Bind(SessionStart(s1, first), LAMBDA s2, sess :
                  Bind(AppendChunks(s2, bytes, ChunkSize, Cursor(sess.v, Len(first))),
                       LAMBDA s3, cur :
                  Then(SessionFinish(s3, <<>>, path, "add", cur), LAMBDA s4 :
                       DbxLog(Count(s4), LOG_DEBUG, "")))),
                  LAMBDA try :
                  IF IsApiError(try) THEN DbxLog(try.s, LOG_DEBUG, "")
                  ELSE try))

\* for i in range(chunk_size, len(data), chunk_size): append data[i:i+chunk_size]
AppendChunks(s, data, i, cur) ==
    IF i >= Len(data) THEN Ret(s, cur)
    ELSE LET next_chunk == SubSeq(data, i + 1, Min(i + ChunkSize, Len(data)))
         IN  Bind(SessionAppend(s, next_chunk, cur), LAMBDA s1, c1 :
                  AppendChunks(s1, data, i + ChunkSize,
                               Cursor(c1.v, cur.off + Len(next_chunk))))

UploadInChunks(s, path, data, data_size, mode) ==
    Then(DbxLog(s, LOG_DEBUG, ""), LAMBDA s1 :
        LET bytes == ToBytes(data).v
            first == SubSeq(bytes, 1, Min(ChunkSize, Len(bytes)))
        IN  Catch(Bind(SessionStart(s1, first), LAMBDA s2, sess :
                  Bind(AppendChunks(s2, bytes, ChunkSize, Cursor(sess.v, Len(first))),
                       LAMBDA s3, cur :
                  Then(SessionFinish(s3, <<>>, path, "overwrite", cur), LAMBDA s4 :
                       DbxLog(Count(s4), LOG_DEBUG, "")))),
                  LAMBDA try :
                  IF IsApiError(try) THEN DbxLog(try.s, LOG_DEBUG, "")
                  ELSE try))

(***************************************************************************)
(* _upload_in_chunks request by request: the request that starts the       *)
(* session, one turn of the loop, the commit.  The value is the cursor the *)
(* method goes on with, or None when "except ApiError" has ended it.       *)
(***************************************************************************)
ChunksExcept(r) ==
    Catch(r, LAMBDA try :
          IF IsApiError(try) THEN DbxLog(try.s, LOG_DEBUG, "") ELSE try)

\* a writer that would empty the destination before it opens the session
BeginSessionTruncating(s, path, data) ==
    Then(Upload(s, path, Bytes(<<>>)), LAMBDA s1 :
         LET bytes == ToBytes(data).v
             first == SubSeq(bytes, 1, Min(ChunkSize, Len(bytes)))
         IN  ChunksExcept(Bind(SessionStart(s1, first), LAMBDA s3, sess :
                               Ret(s3, Cursor(sess.v, Len(first))))))

\* _write_to_dropbox for a payload above the limit, then _upload_in_chunks
\* up to files_upload_session_start and the cursor made of its result
BeginSession(s, path, data) ==
    Then(DbxLog(s, LOG_DEBUG, path), LAMBDA s1 :
    Then(DbxLog(s1, LOG_DEBUG, ""), LAMBDA s2 :
         LET bytes == ToBytes(data).v
             first == SubSeq(bytes, 1, Min(ChunkSize, Len(bytes)))
         IN  ChunksExcept(Bind(SessionStart(s2, first), LAMBDA s3, sess :
                               Ret(s3, Cursor(sess.v, Len(first)))))))

\* next_chunk = data[i : i + chunk_size]; files_upload_session_append_v2;
\* cursor.offset += len(next_chunk)
AppendNextChunk(s, data, i, cur) ==
    LET bytes == ToBytes(data).v
        next_chunk == SubSeq(bytes, i + 1, Min(i + ChunkSize, Len(bytes)))
    IN  ChunksExcept(Bind(SessionAppend(s, next_chunk, cur), LAMBDA s1, c1 :
                          Ret(s1, Cursor(c1.v, cur.off + Len(next_chunk)))))

\* files_upload_session_finish(b"", cursor, commit) and what follows it
CommitSession(s, path, cur) ==
    ChunksExcept(Then(SessionFinish(s, <<>>, path, "overwrite", cur), LAMBDA s4 :
                      DbxLog(Count(s4), LOG_DEBUG, "")))

\* a limit whose margin would be taken as 5 KB
CalculateNewSizeLimitInKB(data_size) == data_size - (SubtractSizeMb * MiB) \div 1024

\* DropboxFileWriter.calculate_new_size_limit(convert_size_to_display(size), 5):
\* the size is divided and multiplied back by the same power of two.
CalculateNewSizeLimit(data_size) == data_size - SubtractSizeMb * MiB

\* DropboxFileWriter._upload_regular, the handler of the ConnectionError
\* "The write operation timed out"
UploadRegularTimedOut(s, path, data, data_size, mode) ==
    Then(DbxLog(s, LOG_DEBUG, path), LAMBDA s2 :
         UploadInChunks([s2 EXCEPT !.large_file_limit = CalculateNewSizeLimit(data_size)],
                        path, data, data_size, mode))

\* a writer that would treat path-not-found like every other ApiError
UploadRegularRaising(s, path, data, data_size, mode) ==
    Catch(Then(Upload(s, path, data), LAMBDA s1 :
               DbxLog(Count(s1), LOG_DEBUG, path)),
          LAMBDA try :
          IF IsApiError(try)
          THEN Then(DbxLog(try.s, LOG_DEBUG, path), LAMBDA s2 : Raise(s2, try.st))
          ELSE IF try.st = "FileNotFoundError" THEN CreateNewFile(try.s, path, data)
          ELSE IF IsConnectionError(try)
               THEN IF try.st = "Timeout"
                    THEN Then(DbxLog(try.s, LOG_DEBUG, path), LAMBDA s2 :
                              UploadInChunks(
                                  [s2 EXCEPT !.large_file_limit = CalculateNewSizeLimit(data_size)],
                                  path, data, data_size, mode))
                    ELSE DbxLog(try.s, LOG_DEBUG, path)
          ELSE try)

\* a writer that would send the file once more after a connection error
\* that is no timeout
UploadRegularRetrying(s, path, data, data_size, mode) ==
    Catch(Then(Upload(s, path, data), LAMBDA s1 :
               DbxLog(Count(s1), LOG_DEBUG, path)),
          LAMBDA try :
          IF IsApiError(try)
          THEN IF try.st = "ApiNotFound" THEN CreateNewFile(try.s, path, data)
               ELSE Then(DbxLog(try.s, LOG_DEBUG, path), LAMBDA s2 :
                         Raise(s2, try.st))
          ELSE IF try.st = "FileNotFoundError" THEN CreateNewFile(try.s, path, data)
          ELSE IF IsConnectionError(try)
               THEN IF try.st = "Timeout"
                    THEN Then(DbxLog(try.s, LOG_DEBUG, path), LAMBDA s2 :
                              UploadInChunks(
                                  [s2 EXCEPT !.large_file_limit = CalculateNewSizeLimit(data_size)],
                                  path, data, data_size, mode))
                    ELSE Then(DbxLog(try.s, LOG_DEBUG, path), LAMBDA s2 :
                         Then(Upload(s2, path, data), LAMBDA s3 :
                              DbxLog(Count(s3), LOG_DEBUG, path)))
          ELSE try)

UploadRegular(s, path, data, data_size, mode) ==
    Catch(Then(Upload(s, path, data), LAMBDA s1 :
               DbxLog(Count(s1), LOG_DEBUG, path)),
          LAMBDA try :
          IF IsApiError(try)
          THEN IF try.st = "ApiNotFound" THEN CreateNewFile(try.s, path, data)
               ELSE Then(DbxLog(try.s, LOG_DEBUG, path), LAMBDA s2 :
                         Raise(s2, try.st))
          ELSE IF try.st = "FileNotFoundError" THEN CreateNewFile(try.s, path, data)
          ELSE IF IsConnectionError(try)
               THEN IF try.st = "Timeout"
                    THEN UploadRegularTimedOut(try.s, path, data, data_size, mode)
                    ELSE DbxLog(try.s, LOG_DEBUG, path)
          ELSE try)

ReadFromDropbox(s, path, mode) ==
    Catch(Then(DbxLog(s, LOG_DEBUG, path), LAMBDA s1 :
          Bind(Download(s1, path), LAMBDA s2, content :
          Then(DbxLog(Count(s2), LOG_DEBUG, path), LAMBDA s3 :
          Then(DbxLog(s3, LOG_PARANOID, ""), LAMBDA s4 :
          Then(IF s4.use_cache
               THEN Then(LockedPut(s4, path, content), LAMBDA s5 :
                         DbxLog(s5, LOG_DEBUG, path))
               ELSE Ret(s4, None), LAMBDA s6 :
               IF "b" \in mode THEN Ret(s6, content) ELSE Decode(s6, content)))))),
          LAMBDA try :
          IF IsApiError(try)
          THEN Then(DbxLog(try.s, LOG_DEBUG, path), LAMBDA s7 :
                    Raise(s7, "FileNotFoundError"))
          ELSE Then(DbxLog(try.s, LOG_DEBUG, path), LAMBDA s7 : Raise(s7, try.st)))

GetFile(s, path, mode) ==
    LET s0 == Touch(s)
    IN  IF CacheHas(s0, path)
        THEN Then(DbxLog(s0, LOG_DEBUG, path), LAMBDA s1 : Ret(s1, CacheGet(s1, path)))
        ELSE Then(DbxLog(s0, LOG_DEBUG, path), LAMBDA s1 : ReadFromDropbox(s1, path, mode))

ReadFromCache(s, path, mode) ==
    Then(DbxLog(s, LOG_DEBUG, path), LAMBDA s1 :
         IF s1.use_cache
         THEN IF Locked(s1) THEN GetFile(s1, path, mode)
              ELSE Unlock(Then(Acquire(s1), LAMBDA s2 : GetFile(s2, path, mode)))
         ELSE Raise(s1, "ValueError"))

\* DropboxFileReader.read, from the point where it has read use_cache
DbxReadBody(s, path, mode, cached) ==
    IF cached THEN ReadFromCache(s, path, mode) ELSE ReadFromDropbox(s, path, mode)

\* DropboxFileAppender._coherent_types
CoherentTypes(s, new_content, existing_content, path) ==
    IF IsStr(existing_content) /\ IsBytes(new_content) THEN Decode(s, new_content)
    ELSE IF IsBytes(existing_content) /\ IsStr(new_content)
         THEN Ret(s, ToBytes(new_content))
    ELSE IF ~(IsStr(existing_content) \/ IsBytes(existing_content))
         THEN IF existing_content.t = "bytearray"
              THEN Then(DbxLog(s, LOG_DEBUG, path), LAMBDA s1 : Ret(s1, new_content))
              ELSE Raise(s, "TypeError")
    ELSE Ret(s, new_content)

\* existing_content + new_content of two values of one type
Concat(a, b) == [t |-> a.t, v |-> a.v \o b.v]

\* existing_content + new_content in _append_to_cache: of two values of one type, or of a bytearray and bytes; a TypeError for other operands
Combine(s, a, b) ==
    IF a.t \in {"str", "bytes", "bytearray"} /\ (a.t = b.t \/ (a.t = "bytearray" /\ IsBytes(b)))
    THEN Ret(s, Concat(a, b))
    ELSE Raise(s, "TypeError")

CombineContentToBytes(s, path, new_content, mode) ==
    Bind(ReadFromDropbox(s, path, mode), LAMBDA s1, existing_content :
    Then(IF IsStr(new_content) THEN DbxLog(s1, LOG_DEBUG, path) ELSE Ret(s1, None),
         LAMBDA s2 :
    Then(IF IsStr(existing_content) THEN DbxLog(s2, LOG_DEBUG, path) ELSE Ret(s2, None),
         LAMBDA s3 :
         Ret(s3, Concat(ToBytes(existing_content), ToBytes(new_content))))))

AppendToDropbox(s, path, new_content, mode) ==
    Then(DbxLog(s, LOG_DEBUG, path), LAMBDA s0 :
        Catch(Bind(CombineContentToBytes(s0, path, new_content, mode),
                   LAMBDA s1, updated_content :
              Then(DbxLog(s1, LOG_DEBUG, path), LAMBDA s2 :
              Then(Upload(s2, path, updated_content), LAMBDA s3 :
                   DbxLog(Count(s3), LOG_INFO, path)))),
              LAMBDA try :
              IF IsApiError(try)
              THEN IF try.st = "ApiNotFound"
                   THEN CreateNewFile(try.s, path, new_content)
                   ELSE try
              ELSE IF try.st = "FileNotFoundError"
                   THEN CreateNewFile(try.s, path, new_content)
              ELSE DbxLog(try.s, LOG_INFO, path)))

AppendToCache(s, path, new_content, mode) ==
    Then(Catch(Bind(ReadFromCache(s, path, mode), LAMBDA s1, existing_content :
               Bind(CoherentTypes(s1, new_content, existing_content, path), LAMBDA s2, nc :
               Bind(Combine(s2, existing_content, nc), LAMBDA s2a, updated_content :
               Then(DbxLog(s2a, LOG_DEBUG, path), LAMBDA s3 :
               Then(LockedPut(s3, path, updated_content), LAMBDA s4 :
                    DbxLog(s4, LOG_DEBUG, path)))))),
               LAMBDA try :
               IF IsApiError(try)
               THEN IF try.st = "ApiNotFound"
                    THEN Then(DbxLog(try.s, LOG_DEBUG, path), LAMBDA s5 :
                         Unlock(Then(Acquire(s5), LAMBDA s6 :
                             IF IsStr(new_content)
                             THEN Ret(CachePut(s6, path, new_content), None)
                             ELSE Bind(Decode(s6, new_content), LAMBDA s7, d :
                                       Ret(CachePut(s7, path, d), None)))))
                    ELSE Then(DbxLog(try.s, LOG_DEBUG, path), LAMBDA s5 :
                              Raise(s5, try.st))
               ELSE IF IsValueError(try)
                    THEN Then(DbxLog(try.s, LOG_DEBUG, path), LAMBDA s5 :
                              Raise(s5, try.st))
               ELSE try),
         LAMBDA s8 :
        Then(DbxLog(s8, LOG_DEBUG, path), LAMBDA s9 :
             IF CacheHas(s9, path)
             THEN DbxWrite(Touch(s9), path, CacheGet(s9, path), {"w"})
             ELSE Raise(Touch(s9), "KeyError")))

\* DropboxFileHandler.exists
DbxExists(s, path) ==
    LET in_cache ==
            IF s.use_cache
            THEN Bind(Acquire(s), LAMBDA s1, u :
                      IF CacheHas(s1, path)
                      THEN Unlock(Then(DbxLog(Touch(s1), LOG_DEBUG, path), LAMBDA s2 :
                                       Ret(s2, True)))
                      ELSE Ret(Release(Touch(s1)), False))
            ELSE Ret(s, False)
    IN  Bind(in_cache, LAMBDA s3, hit :
            IF hit = True THEN Ret(s3, True)
            ELSE Catch(Then(Metadata(s3, path), LAMBDA s4 :
                       Then(DbxLog(Count(s4), LOG_DEBUG, path), LAMBDA s5 :
                            Ret(s5, True))),
                       LAMBDA try :
                       IF IsApiError(try)
                       THEN IF try.st = "ApiNotFound"
                            THEN Then(DbxLog(try.s, LOG_DEBUG, path), LAMBDA s6 :
                                      Ret(s6, False))
                            ELSE Then(DbxLog(try.s, LOG_DEBUG, path), LAMBDA s6 :
                                      Raise(s6, try.st))
                       ELSE try))

\* files_delete_v2 / delete_object
DeleteRemote(s, path) ==
    IF Injected(s) THEN Raise(Req(s), FaultExc(s))
    ELSE IF s.remote[path] = None THEN Raise(Req(s), "ApiNotFound")
    ELSE Ret([Req(s) EXCEPT !.remote[path] = None], None)

\* files_create_folder(path): a file or a folder at the path is a conflict
CreateFolder(s, path) ==
    IF Injected(s) THEN Raise(Req(s), FaultExc(s))
    ELSE IF s.remote[path] # None THEN Raise(Req(s), "ApiConflict")
    ELSE Ret([Req(s) EXCEPT !.remote[path] = Folder], None)

\* DropboxFileHandler.makedirs
DbxMakedirs(s, path) ==
    Catch(CreateFolder(s, path), LAMBDA try :
          IF try.st = "ApiConflict" THEN DbxLog(try.s, LOG_INFO, path) ELSE try)

\* DropboxFileHandler.delete
DbxDelete(s, path) ==
    Catch(Then(DeleteRemote(s, path), LAMBDA s1 :
               DbxLog(Count(s1), LOG_INFO, path)),
          LAMBDA try :
          IF IsApiError(try) THEN DbxLog(try.s, LOG_DEBUG, path) ELSE try)

\* a get_size that would count the characters of a cached text
DbxGetSizeChars(s, path) ==
    LET in_cache ==
            IF s.use_cache
            THEN Bind(Acquire(s), LAMBDA s1, u :
                      Ret(Release(Touch(s1)),
                          IF CacheHas(s1, path) THEN IntVal(Len(CacheGet(s1, path).v))
                          ELSE None))
            ELSE Ret(s, None)
    IN  Bind(in_cache, LAMBDA s2, size :
            IF size # None THEN Ret(s2, size)
            ELSE Catch(Bind(Metadata(s2, path), LAMBDA s3, metadata :
                            IF IsBytes(metadata) THEN Ret(s3, IntVal(Len(metadata.v)))
                            ELSE Then(DbxLog(s3, LOG_DEBUG, path), LAMBDA s4 :
                                      Raise(s4, "TypeError"))),
                       LAMBDA try :
                       IF IsApiError(try)
                       THEN Then(DbxLog(try.s, LOG_DEBUG, path), LAMBDA s5 :
                                 Ret(s5, IntVal(0)))
                       ELSE try))

\* DropboxFileHandler.get_size
DbxGetSize(s, path) ==
    LET in_cache ==
            IF s.use_cache
            THEN Bind(Acquire(s), LAMBDA s1, u :
                      Ret(Release(Touch(s1)),
                          IF CacheHas(s1, path) THEN IntVal(ByteLen(CacheGet(s1, path)))
                          ELSE None))
            ELSE Ret(s, None)
    IN  Bind(in_cache, LAMBDA s2, size :
            IF size # None THEN Ret(s2, size)
            ELSE Catch(Bind(Metadata(s2, path), LAMBDA s3, metadata :
                            IF IsBytes(metadata) THEN Ret(s3, IntVal(Len(metadata.v)))
                            ELSE Then(DbxLog(s3, LOG_DEBUG, path), LAMBDA s4 :
                                      Raise(s4, "TypeError"))),
                       LAMBDA try :
                       IF IsApiError(try)
                       THEN Then(DbxLog(try.s, LOG_DEBUG, path), LAMBDA s5 :
                                 Ret(s5, IntVal(0)))
                       ELSE try))

\* DropboxFileHandler.init: the logger is created and logs its first line
DbxInit(s, level) ==
    DbxLog([s EXCEPT !.log_level = level], LOG_INFO, "")

\* DropboxFileHandler.clear_cache_and_write_to_dropbox up to the snapshot
\* cache_items = list(self.cache.items()); it is entered with use_cache set.
DbxFlushBegin(s) ==
    Then(DbxLog(Touch([s EXCEPT !.use_cache = FALSE]), LOG_DEBUG, ""), LAMBDA s1 :
    Then(DbxLog(Touch(s1), LOG_DEBUG, ""), LAMBDA s2 :
         Ret(Touch(s2), None)))

\* one turn of "for path, data in cache_items: self.write(path, data, mode)"
DbxFlushItem(s, item) ==
    DbxWrite(s, item.k, item.v, IF IsBytes(item.v) THEN {"b"} ELSE {"w"})

\* self.cache.clear(); self.use_cache = True, and the end of the with block
DbxFlushEnd(s) ==
    Release([Touch(s) EXCEPT !.cache = <<>>, !.use_cache = TRUE])

(***************************************************************************)
(* The S3 adapter.  `d` counts the nested calls of the logger: the logger  *)
(* writes through the adapter, and the adapter logs.                       *)
(***************************************************************************)
RECURSIVE S3Log(_, _, _)
RECURSIVE S3ReadBody(_, _, _, _, _)
RECURSIVE S3WriteBody(_, _, _, _, _, _)
RECURSIVE S3AppendBody(_, _, _, _, _)
RECURSIVE S3Write(_, _, _, _, _)

\* if self.logger is not None: self.logger.info/debug(...) -> Logger.log ->
\* Logger._write_to_file -> file_handler.write(log_path, mode="a", ...)
S3Log(s, level, d) ==
    IF s.log_level = NoLogger THEN Ret(s, None)
    ELSE IF level <= s.log_level
         THEN IF d >= RecursionLimit THEN Raise(s, "RecursionError")
              ELSE Method(s, "s3", "write", Args(LogPath, LogLine, {"a"}, FALSE, d + 1))
    ELSE Ret(s, None)

\* S3FileHandler.read, from the point where it has read use_cache
S3ReadBody(s, path, mode, cached, d) ==
    LET hit == IF cached
               THEN Bind(Acquire(s), LAMBDA s1, u :
                         Ret(Release(Touch(s1)),
                             IF CacheHas(s1, path) THEN CacheGet(s1, path) ELSE None))
               ELSE Ret(s, None)
    IN  Bind(hit, LAMBDA s2, h :
            IF h # None THEN Ret(s2, h)
            ELSE Catch(Bind(Download(s2, path), LAMBDA s3, content :
                            Decode(Count(s3), content)),
                       LAMBDA try :
                       IF IsApiError(try)
                       THEN Then(S3Log(try.s, LOG_DEBUG, d), LAMBDA s4 :
                                 Raise(s4, "FileNotFoundError"))
                       ELSE try))

\* S3FileHandler._check_types_valid
CheckTypesValid(s, new_content, existing_content) ==
    IF existing_content.t = new_content.t
    THEN Ret(s, Concat(existing_content, new_content))
    ELSE Raise(s, "ValueError")

\* S3FileHandler.append_to_s3_file, from the point where it has read use_cache
S3AppendBody(s, object_key, new_content, cached, d) ==
    IF cached
    THEN Then(Catch(Bind(IF CacheHas(s, object_key)
                         THEN Ret(Touch(s), CacheGet(s, object_key))
                         ELSE S3ReadBody(Touch(s), object_key, {"r"}, s.use_cache, d),
                         LAMBDA s1, existing_content :
                    Bind(CheckTypesValid(s1, new_content, existing_content),
                         LAMBDA s2, updated_content :
                         Ret(CachePut(s2, object_key, updated_content), None))),
                    LAMBDA try :
                    IF try.st = "FileNotFoundError"
                    THEN Ret(CachePut(try.s, object_key, new_content), None)
                    ELSE try),
              LAMBDA s3 :
              IF CacheHas(s3, object_key)
              THEN S3Write(Touch(s3), object_key, CacheGet(s3, object_key), {"w"}, d)
              ELSE Raise(Touch(s3), "KeyError"))
    ELSE Bind(Catch(Bind(Download(s, object_key), LAMBDA s1, content :
                         Decode(Count(s1), content)),
                    LAMBDA try :
                    IF try.st = "ApiNotFound" THEN Ret(try.s, Str(<<>>)) ELSE try),
              LAMBDA s2, existing_content :
              Then(Upload(s2, object_key, ToBytes(Concat(existing_content, new_content))),
                   LAMBDA s3 : Ret(Count(s3), None)))

S3WriteBody(s, path, data, mode, cached, d) ==
    IF cached
    THEN Catch(Then(Unlock(Then(Acquire(s), LAMBDA s1 :
                                Ret(CachePut(s1, path, data), None))),
                    LAMBDA s2 :
                    IF path # LogPath THEN S3Log(s2, LOG_INFO, d) ELSE Ret(s2, None)),
               LAMBDA try :
               IF IsApiError(try)
               THEN IF path # LogPath THEN S3Log(try.s, LOG_INFO, d) ELSE Ret(try.s, None)
               ELSE try)
    ELSE Catch(Then(Upload(s, path, data), LAMBDA s1 :
                    IF path # LogPath THEN S3Log(Count(s1), LOG_INFO, d)
                    ELSE Ret(Count(s1), None)),
               LAMBDA try :
               IF IsApiError(try)
               THEN IF path # LogPath THEN S3Log(try.s, LOG_DEBUG, d) ELSE Ret(try.s, None)
               ELSE try)

\* S3FileHandler.write up to the point where it reads use_cache: the checks
\* of the type of the data
S3WriteBegin(s, data, mode) ==
    IF "b" \in mode /\ IsStr(data) THEN Raise(s, "ValueError")
    ELSE IF "b" \notin mode /\ IsBytes(data) THEN Raise(s, "ValueError")
    ELSE Ret(s, None)

\* S3FileHandler.write from the point where it has read use_cache
\* (append_to_s3_file reads it for mode "a")
S3WriteRest(s, path, data, mode, cached, d) ==
    IF mode = {"a"} THEN S3AppendBody(s, path, data, cached, d)
    ELSE S3WriteBody(s, path, data, mode, cached, d)

\* S3FileHandler.write
S3Write(s, path, data, mode, d) ==
    Then(S3WriteBegin(s, data, mode), LAMBDA s1 :
         S3WriteRest(s1, path, data, mode, s1.use_cache, d))

\* S3FileHandler.exists
S3Exists(s, path) ==
    LET in_cache ==
            IF s.use_cache
            THEN Bind(Acquire(s), LAMBDA s1, u :
                      Ret(Release(Touch(s1)),
                          IF CacheHas(s1, path) THEN True ELSE False))
            ELSE Ret(s, False)
    IN  Bind(in_cache, LAMBDA s2, hit :
            IF hit = True THEN Ret(s2, True)
            ELSE Catch(Then(Metadata(s2, path), LAMBDA s3 : Ret(Count(s3), True)),
                       LAMBDA try :
                       IF IsApiError(try) \/ IsConnectionError(try)
                       THEN Ret(try.s, False)
                       ELSE try))

\* delete_object answers an absent key like a present one
S3DeleteObject(s, path) ==
    IF Injected(s) THEN Raise(Req(s), FaultExc(s))
    ELSE Ret([Req(s) EXCEPT !.remote[path] = None], None)

\* S3FileHandler.delete
S3Delete(s, path) ==
    Catch(Then(S3DeleteObject(s, path), LAMBDA s1 : S3Log(Count(s1), LOG_INFO, 0)),
          LAMBDA try :
          IF IsApiError(try) THEN S3Log(try.s, LOG_DEBUG, 0) ELSE try)

\* S3FileHandler.get_size
S3GetSize(s, path) ==
    LET in_cache ==
            IF s.use_cache
            THEN Bind(Acquire(s), LAMBDA s1, u :
                      Ret(Release(Touch(s1)),
                          IF CacheHas(s1, path) THEN IntVal(ByteLen(CacheGet(s1, path)))
                          ELSE None))
            ELSE Ret(s, None)
    IN  Bind(in_cache, LAMBDA s2, size :
            IF size # None THEN Ret(s2, size)
            ELSE Catch(Bind(Metadata(s2, path), LAMBDA s3, response :
                            Ret(Count(s3), IntVal(Len(response.v)))),
                       LAMBDA try :
                       IF IsApiError(try) \/ IsConnectionError(try)
                       THEN Then(S3Log(try.s, LOG_DEBUG, 0), LAMBDA s4 :
                                 Ret(s4, IntVal(0)))
                       ELSE try))

\* S3FileHandler.init
S3Init(s, level) ==
    S3Log([s EXCEPT !.log_level = level], LOG_DEBUG, 0)

\* one turn of the loop of S3FileHandler.flush_cache
S3FlushItem(s, item) ==
    Catch(Then(Upload(s, item.k, ToBytes(item.v)), LAMBDA s1 :
               S3Log(Count(s1), LOG_INFO, 0)),
          LAMBDA try :
          IF IsApiError(try) THEN S3Log(try.s, LOG_INFO, 0) ELSE try)

\* self.cache.clear() and the end of the with block
S3FlushEnd(s) ==
    Release([Touch(s) EXCEPT !.cache = <<>>])

(***************************************************************************)
(* The access token of Dropbox (get_or_refresh_token.py).  token_file is   *)
(* db_token.json: empty when there is no file, else one record.  now is    *)
(* time.time().  resp is the answer of the token endpoint to the request.  *)
(***************************************************************************)
NoToken == Str(<<>>)

\* get_new_access_token
GetNewAccessToken(s, resp) ==
    IF resp.err THEN Raise(s, "ConnectionError")
    ELSE IF resp.access_token = NoToken THEN Raise(s, "ValueError")
    ELSE IF resp.expires_in = 0 THEN Raise(s, "ValueError")
    ELSE Ret(s, resp)

\* write_token_to_file
WriteTokenToFile(s, access_token, expires_in) ==
    Ret([s EXCEPT !.token_file = <<[access_token |-> access_token,
                                    expires_at |-> s.now + expires_in]>>], None)

\* get_or_refresh_dropbox_token; creds: the refresh token, the app key and
\* the app secret are given or set in the environment
GetOrRefreshDropboxToken(s, creds, resp) ==
    IF ~creds THEN Raise(s, "ValueError")
    ELSE IF Len(s.token_file) > 0 /\ s.now < s.token_file[1].expires_at
         THEN Ret(s, s.token_file[1].access_token)
    ELSE Catch(Bind(GetNewAccessToken(s, resp), LAMBDA s1, new :
               Then(WriteTokenToFile(s1, new.access_token, new.expires_in),
                    LAMBDA s2 : Ret(s2, new.access_token))),
               LAMBDA try : Ret(try.s, NoToken))

\* DropboxFileHandler.get_or_refresh_token: the token is kept in self.token,
\* the method has no return statement
DbxGetOrRefreshToken(s, creds, resp) ==
    Bind(GetOrRefreshDropboxToken(s, creds, resp), LAMBDA s1, tok :
         Ret([s1 EXCEPT !.token = tok], None))

(***************************************************************************)
(* The local adapter (LocalFileHandler): the files of the local disk are   *)
(* the objects of its store.  It has no cache, no lock and no logger.      *)
(***************************************************************************)
\* open(path, mode).read(); text is decoded as UTF-8
LocalRead(s, path, mode) ==
    IF s.remote[path] = None THEN Raise(s, "FileNotFoundError")
    ELSE IF s.remote[path] = Folder THEN Raise(s, "IsADirectoryError")
    ELSE IF "b" \in mode THEN Ret(s, s.remote[path])
    ELSE Decode(s, s.remote[path])

\* with open(path, mode) as file: file.write(data).  open creates the file
\* ("x": unless it exists) and with "w" empties it, before write checks the
\* type of the data
LocalWrite(s, path, data, mode) ==
    LET old == IF s.remote[path] = None \/ "w" \in mode THEN Bytes(<<>>)
               ELSE s.remote[path]
        opened == [s EXCEPT !.remote[path] = old]
    IN  IF "x" \in mode /\ s.remote[path] # None THEN Raise(s, "FileExistsError")
        ELSE IF s.remote[path] = Folder THEN Raise(s, "IsADirectoryError")
        ELSE IF ("b" \in mode) # IsBytes(data) THEN Raise(opened, "TypeError")
        ELSE Ret([s EXCEPT !.remote[path] = Concat(old, ToBytes(data))], None)

\* LocalFileHandler.delete: os.remove does not remove a directory
LocalDelete(s, path) ==
    IF s.remote[path] = Folder THEN Raise(s, "IsADirectoryError")
    ELSE Ret([s EXCEPT !.remote[path] = None], None)

\* LocalFileHandler.exists
LocalExists(s, path) == Ret(s, IF s.remote[path] = None THEN False ELSE True)

\* LocalFileHandler.get_size: os.path.getsize of a directory is the size of
\* its entry, not 0
LocalGetSize(s, path) ==
    Ret(s, IF s.remote[path] = None THEN IntVal(0)
           ELSE IF s.remote[path] = Folder THEN IntVal(1)
           ELSE IntVal(Len(s.remote[path].v)))

\* LocalFileHandler.makedirs: os.makedirs(path) without exist_ok
LocalMakedirs(s, path) ==
    IF s.remote[path] # None THEN Raise(s, "FileExistsError")
    ELSE Ret([s EXCEPT !.remote[path] = Folder], None)

Method(s, k, name, a) ==
    CASE name = "write" ->
           IF k = "dbx" THEN DbxWrite(s, a.path, a.data, a.mode)
           ELSE S3Write(s, a.path, a.data, a.mode, a.d)
      [] name = "write_begin" ->
           IF k = "dbx" THEN DbxWriteBegin(s, a.path, a.mode)
           ELSE IF k = "s3" THEN S3WriteBegin(s, a.data, a.mode)
           ELSE Ret(s, None)
      [] name = "write_rest" ->
           IF k = "dbx" THEN DbxWriteRest(s, a.path, a.data, a.mode, a.cached)
           ELSE IF k = "s3" THEN S3WriteRest(s, a.path, a.data, a.mode, a.cached, a.d)
           ELSE LocalWrite(s, a.path, a.data, a.mode)
      [] name = "read_rest" ->
           IF k = "dbx" THEN DbxReadBody(s, a.path, a.mode, a.cached)
           ELSE IF k = "s3" THEN S3ReadBody(s, a.path, a.mode, a.cached, a.d)
           ELSE LocalRead(s, a.path, a.mode)
      [] name = "exists" ->
           IF k = "dbx" THEN DbxExists(s, a.path)
           ELSE IF k = "s3" THEN S3Exists(s, a.path)
           ELSE LocalExists(s, a.path)
      [] name = "delete" ->
           IF k = "dbx" THEN DbxDelete(s, a.path)
           ELSE IF k = "s3" THEN S3Delete(s, a.path)
           ELSE LocalDelete(s, a.path)
      [] name = "get_size" ->
           IF k = "dbx" THEN DbxGetSize(s, a.path)
           ELSE IF k = "s3" THEN S3GetSize(s, a.path)
           ELSE LocalGetSize(s, a.path)
      [] name = "makedirs" ->
           IF k = "dbx" THEN DbxMakedirs(s, a.path)
           ELSE IF k = "s3" THEN Raise(s, "NotImplementedError")
           ELSE LocalMakedirs(s, a.path)
      [] name = "flush_begin" -> DbxFlushBegin(s)
      [] name = "flush_item" ->
           IF k = "dbx" THEN DbxFlushItem(s, [k |-> a.path, v |-> a.data])
           ELSE S3FlushItem(Touch(s), [k |-> a.path, v |-> a.data])

(***************************************************************************)
(* State.                                                                  *)
(*   kind              which adapter create_and_get_file_handler built     *)
(*   cache, use_cache, lock, num_calls, large_file_limit, log_level        *)
(*                     the adapter's fields (log_level: of its logger)     *)
(*   remote            the objects of the remote store                     *)
(*   unlocked          the last step touched the cache without the lock    *)
(*   pc, call          where each thread is, and the call it is in         *)
(*   hist              the last calls each thread has completed: the last  *)
(*                     one, the write before it, and the overwrite before  *)
(*                     an append                                           *)
(*   committed         per path, the data of the last overwrite that has   *)
(*                     returned with no write to the path issued since     *)
(***************************************************************************)
VARIABLES kind, cache, remote, use_cache, lock, num_calls, large_file_limit,
          log_level, unlocked, pc, call, hist, committed,
          token, token_file, now

vars == <<kind, cache, remote, use_cache, lock, num_calls, large_file_limit,
          log_level, unlocked, pc, call, hist, committed, token, token_file, now>>

NoFault == [kind |-> "none", at |-> 0]
MaxFaultAt == 0
FaultKinds == IF kind = "dbx" THEN {"ApiOther", "PathNotFound", "Timeout", "ConnErr"}
              ELSE {"ApiOther", "ConnErr"}
\* the remote store answers, or one request of the segment fails
Faults == {NoFault} \cup [kind : FaultKinds, at : 0..MaxFaultAt]

\* the data and modes of the writes: text with "w", "a", "x" and bytes with
\* "wb", "ab", "xb"; 233 is a letter of two bytes, 255 is no UTF-8
Texts == {Str(<<97>>), Str(<<233>>)}
Blobs == {Bytes(<<255>>)}
Data == Texts \cup Blobs
Actions == {"w", "a", "x"}
ModeOf(action, data) == IF IsBytes(data) THEN {action, "b"} ELSE {action}
ReadModes == {{"r"}, {"r", "b"}}
InitLevels == {LOG_INFO, LOG_DEBUG}

\* the adapter's fields as thread t sees them in a segment in which the
\* remote store fails as f says
Self(t, f) ==
    [cache |-> cache, remote |-> remote, use_cache |-> use_cache, lock |-> lock,
     num_calls |-> num_calls, large_file_limit |-> large_file_limit,
     log_level |-> log_level, unlocked |-> FALSE, me |-> t, fault |-> f, rc |-> 0,
     sent |-> <<>>, ups |-> <<>>, token |-> token, token_file |-> token_file, now |-> now]

\* the fault of the segment was met by a request
Hit(s) == s.fault.kind # "none" /\ s.rc > s.fault.at

Apply(s) ==
    /\ kind' = kind
    /\ cache' = s.cache
    /\ remote' = s.remote
    /\ use_cache' = s.use_cache
    /\ lock' = s.lock
    /\ num_calls' = s.num_calls
    /\ large_file_limit' = s.large_file_limit
    /\ log_level' = s.log_level
    /\ unlocked' = s.unlocked
    /\ token' = s.token
    /\ token_file' = s.token_file
    /\ now' = now

\* a call in progress: its arguments; cached, items, idx, n0: the locals
\* of the method; faulted, dn, dirty, cchg, sent, uc0, abs0, exp: what the
\* call has met so far (a failed request, the requests counted, a change of
\* the remote store, a change of the cache, the requests of upload
\* sessions), cur: the cursor of the upload session it has open, before:
\* the content of its path when the session began, and what held when it began (use_cache, the path absent from
\* the cache and the remote store, the committed data)
NoCall ==
    [op |-> "none", path |-> "", data |-> None, mode |-> {}, faulted |-> FALSE,
     cached |-> FALSE, items |-> <<>>, idx |-> 0, n0 |-> 0,
     dn |-> 0, nreq |-> 0, dirty |-> FALSE, cchg |-> FALSE, sent |-> <<>>,
     ups |-> <<>>, fk |-> "none", cur |-> Cursor(<<>>, 0), before |-> None,
     uc0 |-> FALSE, abs0 |-> FALSE, exp |-> None]

NewCall(t, op, path, data, mode) ==
    [op |-> op, path |-> path, data |-> data, mode |-> mode, faulted |-> FALSE,
     cached |-> FALSE, items |-> <<>>, idx |-> 0, n0 |-> 0,
     dn |-> 0, nreq |-> 0, dirty |-> FALSE, cchg |-> FALSE, sent |-> <<>>,
     ups |-> <<>>, fk |-> "none", cur |-> Cursor(<<>>, 0), before |-> None,
     uc0 |-> use_cache,
     abs0 |-> (path \in AllPaths /\ ~DictHas(cache, path) /\ remote[path] = None),
     exp |-> IF op = "read" THEN committed[path] ELSE None]

\* the call c after a segment with result r; fk is the failure the remote
\* store answered a request of the call with, dn what the call added to
\* num_calls, nreq the number of requests it sent to the remote store
Met(c, r) ==
    [c EXCEPT !.faulted = @ \/ Hit(r.s),
              !.dn = @ + (r.s.num_calls - num_calls),
              !.nreq = @ + r.s.rc,
              !.dirty = @ \/ (r.s.remote # remote),
              !.cchg = @ \/ (r.s.cache # cache),
              !.sent = @ \o r.s.sent,
              !.ups = @ \o r.s.ups,
              !.fk = IF Hit(r.s) THEN r.s.fault.kind ELSE @]

\* a completed call; at is the time at which a call for the token returned
TokenOps == {"get_or_refresh_token", "get_or_refresh_dropbox_token"}
NoHist ==
    [op |-> "none", path |-> "", data |-> None, mode |-> {}, faulted |-> FALSE,
     st |-> "none", ret |-> None, items |-> <<>>, dn |-> 0, nreq |-> 0,
     dirty |-> FALSE,
     cchg |-> FALSE, sent |-> <<>>, ups |-> <<>>, fk |-> "none", uc0 |-> FALSE,
     abs0 |-> FALSE, exp |-> None, expok |-> FALSE, at |-> 0, before |-> None]

Completed(c, r) ==
    [op |-> c.op, path |-> c.path, data |-> c.data, mode |-> c.mode,
     faulted |-> Met(c, r).faulted, st |-> r.st, ret |-> r.v,
     items |-> c.items, dn |-> Met(c, r).dn, nreq |-> Met(c, r).nreq,
     dirty |-> Met(c, r).dirty,
     cchg |-> Met(c, r).cchg, sent |-> Met(c, r).sent, ups |-> Met(c, r).ups,
     fk |-> Met(c, r).fk,
     uc0 |-> c.uc0, abs0 |-> c.abs0, exp |-> c.exp,
     expok |-> (c.op = "read" /\ committed[c.path] = c.exp),
     at |-> IF c.op \in TokenOps THEN now ELSE 0, before |-> c.before]

TypeMatches(data, mode) == ("b" \in mode) <=> IsBytes(data)
IsOverwrite(mode) == mode \in {{"w"}, {"w", "b"}}
IsAppend(mode) == mode \in {{"a"}, {"a", "b"}}
IsCreate(mode) == mode \in {{"x"}, {"x", "b"}}

\* what a thread remembers of its calls when the call n completes after the
\* calls h: n; before it the write that returned normally, when n is a read
\* after an overwrite or an append, an append after an overwrite, or a
\* create after a create; before that the overwrite of overwrite, append,
\* read; or when n is a read after an append to a path that neither the
\* cache nor the store held.  Before a cleanup, the cleanup that returned
\* normally.
Remember(h, n) ==
    LET w == /\ h[3].op = "write" /\ h[3].st = "ok" /\ ~h[3].faulted
             /\ n.path = h[3].path
        o == /\ w /\ n.op = "read" /\ IsAppend(h[3].mode)
             /\ h[2].op = "write" /\ IsOverwrite(h[2].mode) /\ h[2].path = n.path
        k == /\ w
             /\ \/ n.op = "read" /\ (IsOverwrite(h[3].mode) \/ o)
                \/ n.op = "read" /\ IsAppend(h[3].mode) /\ h[3].abs0
                \/ n.op = "write" /\ IsAppend(n.mode) /\ IsOverwrite(h[3].mode)
                \/ n.op = "write" /\ IsCreate(n.mode) /\ IsCreate(h[3].mode)
        c == n.op = "flush" /\ h[3].op = "flush" /\ h[3].st = "ok" /\ ~h[3].faulted
    IN  <<IF o THEN h[2] ELSE NoHist, IF k \/ c THEN h[3] ELSE NoHist, n>>

\* the length of the longest content the path has in the cache or remotely
CurLen(path) ==
    LET c == IF DictHas(cache, path) THEN Len(DictGet(cache, path).v) ELSE 0
        r == Len(remote[path].v)
    IN  IF c > r THEN c ELSE r

\* a new call may start (the guards that keep the model finite)
MayStart(t) ==
    /\ pc[t] = "idle"
    /\ num_calls < MaxCalls
    /\ CurLen(LogPath) <= MaxLog

\* the call c of thread t ends with result r, or blocks for ever
Finish(t, c, r) ==
    /\ r.st # "Wait"
    /\ Apply(r.s)
    /\ IF r.st = "Blocked"
       THEN /\ pc' = [pc EXCEPT ![t] = "blocked"]
            /\ call' = [call EXCEPT ![t] = Met(c, r)]
            /\ UNCHANGED hist
            /\ committed' = IF c.op = "write"
                            THEN [committed EXCEPT ![c.path] = None]
                            ELSE committed
       ELSE /\ pc' = [pc EXCEPT ![t] = "idle"]
            /\ call' = [call EXCEPT ![t] = NoCall]
            /\ hist' = [hist EXCEPT ![t] = Remember(@, Completed(c, r))]
            /\ committed' =
                 IF c.op = "write"
                 THEN [committed EXCEPT ![c.path] =
                         IF /\ Ok(r) /\ IsOverwrite(c.mode) /\ TypeMatches(c.data, c.mode)
                            /\ ~(c.faulted \/ Hit(r.s))
                            /\ \A u \in Threads \ {t} :
                                   ~(call[u].op = "write" /\ call[u].path = c.path)
                         THEN c.data ELSE None]
                 ELSE IF c.op = "delete" THEN [committed EXCEPT ![c.path] = None]
                 ELSE committed

\* the call c of thread t goes on at nextpc after a segment with result r
Continue(t, c, r, nextpc) ==
    /\ Ok(r)
    /\ Apply(r.s)
    /\ pc' = [pc EXCEPT ![t] = nextpc]
    /\ call' = [call EXCEPT ![t] = Met(c, r)]
    /\ UNCHANGED hist
    /\ committed' = IF c.op = "write" THEN [committed EXCEPT ![c.path] = None]
                    ELSE committed

Step(t, c, r, nextpc) ==
    IF Ok(r) THEN Continue(t, c, r, nextpc) ELSE Finish(t, c, r)

\* a step at whose end the call reads self.use_cache and takes its branch
StepDispatch(t, c, r, nextpc) ==
    Step(t, [c EXCEPT !.cached = r.s.use_cache], r, nextpc)

\* a step at whose end the call copies the items of the cache
StepSnapshot(t, c, r, nextpc) ==
    Step(t, [c EXCEPT !.items = r.s.cache], r, nextpc)

InitRemote ==
    { [p \in AllPaths |-> IF p = LogPath THEN lg ELSE f] :
        lg \in {None, ToBytes(LogLine)}, f \in {None} }

\* create_and_get_file_handler has built the adapter; init(helper) has not
\* run yet
Init ==
    /\ kind \in {"dbx", "s3"}
    /\ use_cache \in BOOLEAN
    /\ remote \in InitRemote
    /\ cache = <<>>
    /\ lock = 0
    /\ num_calls = 0
    /\ large_file_limit = InitialLargeFileLimit
    /\ log_level = NoLogger
    /\ unlocked = FALSE
    /\ pc = [t \in Threads |-> "idle"]
    /\ call = [t \in Threads |-> NoCall]
    /\ hist = [t \in Threads |-> <<NoHist, NoHist, NoHist>>]
    /\ committed = [p \in AllPaths |-> None]
    /\ token = None
    /\ token_file = <<>>
    /\ now = 0

(***************************************************************************)
(* The calls of the Storage Contract, as the threads of the bot make them. *)
(***************************************************************************)

\* init(helper)
HandlerInit(t, level) ==
    /\ MayStart(t)
    /\ log_level = NoLogger
    /\ LET c == NewCall(t, "init", "", None, {})
           s == Self(t, NoFault)
       IN  Finish(t, c, IF kind = "dbx" THEN DbxInit(s, level) ELSE S3Init(s, level))

\* write(path, data, mode) up to the point where it has read use_cache
StartWrite(t, path, data, mode, f) ==
    /\ MayStart(t)
    /\ "a" \in mode => CurLen(path) + Len(data.v) <= MaxLen
    /\ LET c == NewCall(t, "write", path, data, mode)
           s == Self(t, f)
       IN  StepDispatch(t, c,
               Method(s, kind, "write_begin", Args(path, data, mode, FALSE, 0)),
               "write_body")

\* the rest of write
WriteBody(t, f) ==
    /\ pc[t] = "write_body"
    /\ LET c == call[t]
           s == Self(t, f)
       IN  Finish(t, c, Method(s, kind, "write_rest",
                               Args(c.path, c.data, c.mode, c.cached, 0)))

\* read(path, mode) up to the point where it has read use_cache
StartRead(t, path, mode) ==
    /\ MayStart(t)
    /\ LET c == NewCall(t, "read", path, None, mode)
       IN  Continue(t, [c EXCEPT !.cached = use_cache], Ret(Self(t, NoFault), None),
                    "read_body")

\* the rest of read
ReadBody(t, f) ==
    /\ pc[t] = "read_body"
    /\ LET c == call[t]
           s == Self(t, f)
       IN  Finish(t, c, Method(s, kind, "read_rest",
                               Args(c.path, None, c.mode, c.cached, 0)))

\* a cleanup may start like every call, and once more after a cleanup
MayRepeat(t) ==
    \/ MayStart(t)
    \/ /\ pc[t] = "idle"
       /\ hist[t][3].op = "flush" /\ hist[t][2].op # "flush"
       /\ CurLen(LogPath) <= MaxLog

\* cleanup(): clear_cache_and_write_to_dropbox up to its snapshot of the
\* cache; flush_cache has nothing before it takes the lock
StartFlush(t, f) ==
    /\ MayRepeat(t)
    /\ LET c == NewCall(t, "flush", "", None, {})
           s == Self(t, f)
       IN  IF kind = "dbx"
           THEN IF ~use_cache THEN Finish(t, c, Ret(s, None))
                ELSE StepSnapshot(t, c,
                         Method(s, kind, "flush_begin", Args("", None, {}, FALSE, 0)),
                         "flush_lock")
           ELSE Continue(t, c, Ret(s, None), "flush_lock")

\* with self.lock: and, in flush_cache, the start of the iteration over
\* the dict itself
FlushLock(t) ==
    /\ pc[t] = "flush_lock"
    /\ LET c == call[t]
           r == Acquire(Self(t, NoFault))
       IN  Step(t, [c EXCEPT !.idx = 1, !.n0 = Len(cache),
                              !.items = IF kind = "s3" THEN cache ELSE @],
                r, "flush_items")

\* one turn of the loop; an exception leaves the with block and the call.
\* A dict that changed its size makes the iteration of flush_cache raise.
FlushItem(t, f) ==
    /\ pc[t] = "flush_items"
    /\ LET c == call[t]
           s == Self(t, f)
           resized == kind = "s3" /\ Len(cache) # c.n0
           more == IF kind = "dbx" THEN c.idx <= Len(c.items) ELSE c.idx <= c.n0
           item == IF kind = "dbx" THEN c.items[c.idx] ELSE cache[c.idx]
           r == IF resized THEN Raise(Touch(s), "RuntimeError")
                ELSE Method(s, kind, "flush_item", Args(item.k, item.v, {}, FALSE, 0))
       IN  /\ resized \/ more
           /\ Step(t, [c EXCEPT !.idx = @ + 1], Inside(r), "flush_items")

\* the end of the loop: the cache is cleared and the lock released
FlushEnd(t) ==
    /\ pc[t] = "flush_items"
    /\ LET c == call[t]
           s == Self(t, NoFault)
       IN  /\ IF kind = "dbx" THEN c.idx > Len(c.items)
              ELSE Len(cache) = c.n0 /\ c.idx > c.n0
           /\ Finish(t, c, Ret(IF kind = "dbx" THEN DbxFlushEnd(s) ELSE S3FlushEnd(s),
                               None))

\* exists(path), delete(path), makedirs(path), get_size(path)
Exists(t, path, f) ==
    /\ MayStart(t)
    /\ Finish(t, NewCall(t, "exists", path, None, {}),
              Method(Self(t, f), kind, "exists", Args(path, None, {}, FALSE, 0)))

Delete(t, path, f) ==
    /\ MayStart(t)
    /\ Finish(t, NewCall(t, "delete", path, None, {}),
              Method(Self(t, f), kind, "delete", Args(path, None, {}, FALSE, 0)))

Makedirs(t, path, f) ==
    /\ MayStart(t)
    /\ Finish(t, NewCall(t, "makedirs", path, None, {}),
              Method(Self(t, f), kind, "makedirs", Args(path, None, {}, FALSE, 0)))

GetSize(t, path, f) ==
    /\ MayStart(t)
    /\ Finish(t, NewCall(t, "get_size", path, None, {}),
              Method(Self(t, f), kind, "get_size", Args(path, None, {}, FALSE, 0)))

(***************************************************************************)
(* Spec: one thread uses the adapter, with or without a logger, and the    *)
(* remote store answers.  SpecFaults: one thread uses the adapter, and a   *)
(* request of the remote store may fail.  SpecThreads: one thread reads and  *)
(* writes while another runs cleanup, and the remote store answers.        *)
(***************************************************************************)
\* no log file is stored yet
InitNoLogFile == Init /\ remote[LogPath] = None

Next ==
    \/ \E level \in InitLevels : HandlerInit(1, level)
    \/ \E path \in UserPaths, data \in Data, a \in Actions :
          StartWrite(1, path, data, ModeOf(a, data), NoFault)
    \/ WriteBody(1, NoFault)
    \/ \E path \in UserPaths, mode \in ReadModes : StartRead(1, path, mode)
    \/ ReadBody(1, NoFault)
    \/ StartFlush(1, NoFault)
    \/ FlushLock(1)
    \/ FlushItem(1, NoFault)
    \/ FlushEnd(1)

Spec == Init /\ [][Next]_vars

NextFaults ==
    \/ \E path \in UserPaths, data \in Data, a \in Actions, f \in Faults :
          StartWrite(1, path, data, ModeOf(a, data), f)
    \/ \E f \in Faults : WriteBody(1, f)
    \/ \E path \in UserPaths, mode \in ReadModes : StartRead(1, path, mode)
    \/ \E f \in Faults : ReadBody(1, f)
    \/ \E f \in Faults : StartFlush(1, f)
    \/ FlushLock(1)
    \/ \E f \in Faults : FlushItem(1, f)
    \/ FlushEnd(1)

SpecFaults == InitNoLogFile /\ [][NextFaults]_vars

NextThreads ==
    \/ \E path \in UserPaths, data \in Texts :
          StartWrite(1, path, data, {"w"}, NoFault)
    \/ WriteBody(1, NoFault)
    \/ \E path \in UserPaths : StartRead(1, path, {"r"})
    \/ ReadBody(1, NoFault)
    \/ StartFlush(2, NoFault)
    \/ FlushLock(2)
    \/ FlushItem(2, NoFault)
    \/ FlushEnd(2)

SpecThreads == InitNoLogFile /\ [][NextThreads]_vars

\* file_handler.get_or_refresh_token(), as the loop of main.py calls it;
\* S3FileHandler and LocalFileHandler return ""
GetOrRefreshToken(t, creds, resp) ==
    /\ MayStart(t)
    /\ LET s == Self(t, NoFault)
       IN  Finish(t, NewCall(t, "get_or_refresh_token", "", None, {}),
                  IF kind = "dbx" THEN DbxGetOrRefreshToken(s, creds, resp)
                  ELSE Ret(s, NoToken))

\* get_or_refresh_dropbox_token(...), as create_and_get_file_handler and
\* DropboxBackup call it
RefreshDropboxToken(t, creds, resp) ==
    /\ MayStart(t)
    /\ Finish(t, NewCall(t, "get_or_refresh_dropbox_token", "", None, {}),
              GetOrRefreshDropboxToken(Self(t, NoFault), creds, resp))

\* time passes
Tick ==
    /\ now < MaxNow
    /\ now' = now + 1
    /\ UNCHANGED <<kind, cache, remote, use_cache, lock, num_calls, large_file_limit,
                   log_level, unlocked, pc, call, hist, committed, token, token_file>>

(***************************************************************************)
(* SpecOps: one thread uses any of the three adapters through the whole    *)
(* FileHandler interface, with data of either type under every mode; the   *)
(* path may hold a file already (on Dropbox: a folder), and a request of   *)
(* the remote store may fail.                                              *)
(***************************************************************************)
OpsData == {Str(<<233>>), Bytes(<<255>>)}
WriteModes == {{a} : a \in Actions} \cup {{a, "b"} : a \in Actions}

InitOps ==
    /\ kind \in {"dbx", "s3", "local"}
    /\ use_cache \in BOOLEAN
    /\ kind = "local" => ~use_cache
    /\ \E f \in {None, Bytes(<<97>>), Folder} :
          /\ f = Folder => kind # "s3"
          /\ remote = [p \in AllPaths |-> IF p = LogPath THEN None ELSE f]
    /\ cache = <<>>
    /\ lock = 0
    /\ num_calls = 0
    /\ large_file_limit = InitialLargeFileLimit
    /\ log_level = NoLogger
    /\ unlocked = FALSE
    /\ pc = [t \in Threads |-> "idle"]
    /\ call = [t \in Threads |-> NoCall]
    /\ hist = [t \in Threads |-> <<NoHist, NoHist, NoHist>>]
    /\ committed = [p \in AllPaths |-> None]
    /\ token = None
    /\ token_file = <<>>
    /\ now = 0

NextOps ==
    \/ \E level \in InitLevels : kind # "local" /\ HandlerInit(1, level)
    \/ \E path \in UserPaths, data \in OpsData, mode \in WriteModes, f \in Faults :
          StartWrite(1, path, data, mode, f)
    \/ \E f \in Faults : WriteBody(1, f)
    \/ \E path \in UserPaths, mode \in ReadModes : StartRead(1, path, mode)
    \/ \E f \in Faults : ReadBody(1, f)
    \/ \E path \in UserPaths, f \in Faults : Exists(1, path, f)
    \/ \E path \in UserPaths, f \in Faults : Delete(1, path, f)
    \/ \E path \in UserPaths, f \in Faults : GetSize(1, path, f)
    \/ \E path \in UserPaths, f \in Faults : Makedirs(1, path, f)

SpecOps == InitOps /\ [][NextOps]_vars

(***************************************************************************)
(* SpecSize: one thread writes, asks for sizes and flushes on a remote     *)
(* adapter with caching enabled and no logger; the remote store may fail   *)
(* the request of a get_size.                                              *)
(***************************************************************************)
InitSize ==
    /\ InitOps
    /\ kind \in {"dbx", "s3"} /\ use_cache

NextSize ==
    \/ \E path \in UserPaths, data \in Data, a \in {"w", "a"} :
          StartWrite(1, path, data, ModeOf(a, data), NoFault)
    \/ WriteBody(1, NoFault)
    \/ \E path \in UserPaths, f \in Faults : GetSize(1, path, f)
    \/ StartFlush(1, NoFault)
    \/ FlushLock(1)
    \/ FlushItem(1, NoFault)
    \/ FlushEnd(1)

SpecSize == InitSize /\ [][NextSize]_vars

(***************************************************************************)
(* SpecUntyped: one thread of a Dropbox adapter with caching enabled       *)
(* overwrites with text, bytes and values that are neither, appends text   *)
(* and bytes, and reads.                                                   *)
(***************************************************************************)
Untyped == {IntVal(7), ByteArray(<<98>>)}

InitDbxCached == InitSize /\ kind = "dbx"

NextUntyped ==
    \/ \E path \in UserPaths, data \in Data \cup Untyped :
          StartWrite(1, path, data, {"w"}, NoFault)
    \/ \E path \in UserPaths, data \in Data :
          StartWrite(1, path, data, ModeOf("a", data), NoFault)
    \/ WriteBody(1, NoFault)

SpecUntyped == InitDbxCached /\ [][NextUntyped]_vars

(***************************************************************************)
(* SpecCreate: two threads write in create-if-absent mode through one      *)
(* adapter, with caching enabled or disabled and no logger.                *)
(***************************************************************************)
NextCreate ==
    \/ \E t \in Threads, path \in UserPaths, data \in Data :
          StartWrite(t, path, data, ModeOf("x", data), NoFault)
    \/ \E t \in Threads : WriteBody(t, NoFault)

SpecCreate == InitNoLogFile /\ [][NextCreate]_vars

(***************************************************************************)
(* SpecLock: the calls of a Dropbox adapter that take the lock, with       *)
(* caching enabled at the start and a logger that writes through the       *)
(* adapter: one thread initializes, writes, reads, asks for existence and   *)
(* size, and flushes.                                                      *)
(***************************************************************************)
\* the log file may be stored already
InitLock == Init /\ kind = "dbx" /\ use_cache

NextLock ==
    \/ \E level \in InitLevels : HandlerInit(1, level)
    \/ \E path \in UserPaths, data \in Texts, a \in Actions :
          StartWrite(1, path, data, {a}, NoFault)
    \/ WriteBody(1, NoFault)
    \/ \E path \in UserPaths : StartRead(1, path, {"r"})
    \/ ReadBody(1, NoFault)
    \/ \E path \in UserPaths : Exists(1, path, NoFault)
    \/ \E path \in UserPaths : GetSize(1, path, NoFault)
    \/ StartFlush(1, NoFault)
    \/ FlushLock(1)
    \/ FlushItem(1, NoFault)
    \/ FlushEnd(1)

SpecLock == InitLock /\ [][NextLock]_vars

(***************************************************************************)
(* SpecChunks: one thread writes payloads of many sizes to Dropbox without *)
(* cache and logger.  The sizes lie around the chunk size and the limit of *)
(* files_upload; a request may time out or be refused, so that a payload   *)
(* below the limit is uploaded in chunks as well.                          *)
(***************************************************************************)
MaxChunkFaultAt == 2
ChunkLens ==
    {1, ChunkSize - 1, ChunkSize, ChunkSize + 1, 2 * ChunkSize, 2 * ChunkSize + 1,
     InitialLargeFileLimit - 1, InitialLargeFileLimit, InitialLargeFileLimit + 1,
     InitialLargeFileLimit + 2 * MiB}
\* bytes that tell their position, and a text whose two-byte letter lies
\* across the end of the first chunk
ChunkData ==
    {Bytes([i \in 1..n |-> i % 256]) : n \in ChunkLens}
    \cup {Str([i \in 1..(ChunkSize + 1) |-> IF i = ChunkSize THEN 233 ELSE 97])}
ChunkFaults ==
    {NoFault} \cup [kind : {"Timeout", "ApiOther"}, at : 0..MaxChunkFaultAt]

InitChunks ==
    /\ kind = "dbx"
    /\ use_cache = FALSE
    /\ remote = [p \in AllPaths |-> None]
    /\ cache = <<>>
    /\ lock = 0
    /\ num_calls = 0
    /\ large_file_limit = InitialLargeFileLimit
    /\ log_level = NoLogger
    /\ unlocked = FALSE
    /\ pc = [t \in Threads |-> "idle"]
    /\ call = [t \in Threads |-> NoCall]
    /\ hist = [t \in Threads |-> <<NoHist, NoHist, NoHist>>]
    /\ committed = [p \in AllPaths |-> None]
    /\ token = None
    /\ token_file = <<>>
    /\ now = 0

NextChunks ==
    \/ \E path \in UserPaths, data \in ChunkData :
          StartWrite(1, path, data, ModeOf("w", data), NoFault)
    \/ \E f \in ChunkFaults : WriteBody(1, f)

SpecChunks == InitChunks /\ [][NextChunks]_vars

(***************************************************************************)
(* SpecSession: one thread overwrites a path on Dropbox, without cache and *)
(* logger, with payloads above the limit of files_upload.  Every request   *)
(* of the upload session is a step of its own, and each may time out or be *)
(* refused.                                                                *)
(***************************************************************************)
ChunksBegin(t, f) ==
    /\ pc[t] = "write_body"
    /\ kind = "dbx" /\ ~call[t].cached /\ "a" \notin call[t].mode
    /\ ByteLen(call[t].data) > large_file_limit
    /\ LET c == [call[t] EXCEPT !.before = remote[call[t].path]]
           r == BeginSession(Self(t, f), c.path, c.data)
       IN  IF Ok(r) /\ r.v # None
           THEN Continue(t, [c EXCEPT !.cur = r.v, !.idx = ChunkSize], r, "session")
           ELSE Finish(t, c, r)

ChunksAppend(t, f) ==
    /\ pc[t] = "session"
    /\ call[t].idx < ByteLen(call[t].data)
    /\ LET c == call[t]
           r == AppendNextChunk(Self(t, f), c.data, c.idx, c.cur)
       IN  IF Ok(r) /\ r.v # None
           THEN Continue(t, [c EXCEPT !.cur = r.v, !.idx = @ + ChunkSize], r, "session")
           ELSE Finish(t, c, r)

ChunksCommit(t, f) ==
    /\ pc[t] = "session"
    /\ call[t].idx >= ByteLen(call[t].data)
    /\ Finish(t, call[t], CommitSession(Self(t, f), call[t].path, call[t].cur))

SessionData == {d \in ChunkData : ByteLen(d) > InitialLargeFileLimit}
SessionFaults == {f \in ChunkFaults : f.at = 0}

NextSession ==
    \/ \E path \in UserPaths, data \in SessionData :
          StartWrite(1, path, data, ModeOf("w", data), NoFault)
    \/ \E f \in SessionFaults : ChunksBegin(1, f)
    \/ \E f \in SessionFaults : ChunksAppend(1, f)
    \/ \E f \in SessionFaults : ChunksCommit(1, f)

SpecSession == InitChunks /\ [][NextSession]_vars

(***************************************************************************)
(* SpecAttempts: one thread overwrites, appends and creates on Dropbox     *)
(* without cache and logger, and any one request of a write may time out,  *)
(* lose its connection, be refused or be answered path-not-found, the      *)
(* upload that follows a download included.                                *)
(***************************************************************************)
AttemptFaults ==
    {NoFault}
    \cup [kind : {"ApiOther", "PathNotFound", "Timeout", "ConnErr"},
          at : 0..MaxChunkFaultAt]

NextAttempts ==
    \/ \E path \in UserPaths, data \in Data, a \in Actions, f \in AttemptFaults :
          StartWrite(1, path, data, ModeOf(a, data), f)
    \/ \E f \in AttemptFaults : WriteBody(1, f)

SpecAttempts == InitChunks /\ [][NextAttempts]_vars

(***************************************************************************)
(* SpecLimit: two threads overwrite on Dropbox, without cache and logger,  *)
(* with payloads that fit the limit of files_upload.  A files_upload that  *)
(* times out is a step of its own: the thread waits for the answer of the  *)
(* remote store while the other thread runs, and handles the timeout       *)
(* afterwards.                                                             *)
(***************************************************************************)
LimitData ==
    {Bytes([i \in 1..n |-> i % 256]) : n \in {SubtractSizeMb * MiB + 2, 3 * SubtractSizeMb * MiB}}
TimedOut == [kind |-> "Timeout", at |-> 0]

\* _write_to_dropbox has compared the size with large_file_limit and
\* _upload_regular has sent files_upload, which times out
RegularBegin(t) ==
    /\ pc[t] = "write_body"
    /\ kind = "dbx" /\ ~call[t].cached /\ "a" \notin call[t].mode
    /\ ByteLen(call[t].data) <= large_file_limit
    /\ LET c == call[t]
           r == Then(DbxLog(Self(t, TimedOut), LOG_DEBUG, c.path), LAMBDA s1 :
                     Upload(s1, c.path, c.data))
       IN  /\ r.st = "Timeout"
           /\ Continue(t, c, Ret(r.s, None), "timed_out")

\* the except clause of _upload_regular for the timeout
RegularTimedOut(t, f) ==
    /\ pc[t] = "timed_out"
    /\ LET c == call[t]
       IN  Finish(t, c, UploadRegularTimedOut(Self(t, f), c.path, c.data,
                                              ByteLen(c.data), c.mode))

NextLimit ==
    \/ \E t \in Threads, path \in UserPaths, data \in LimitData :
          StartWrite(t, path, data, ModeOf("w", data), NoFault)
    \/ \E t \in Threads, f \in {NoFault, TimedOut} : WriteBody(t, f)
    \/ \E t \in Threads : RegularBegin(t)
    \/ \E t \in Threads : RegularTimedOut(t, NoFault)

SpecLimit == InitChunks /\ [][NextLimit]_vars

(***************************************************************************)
(* SpecToken: the bot asks for the access token of Dropbox again and again *)
(* while time passes; the token endpoint answers with a token and its life *)
(* time, with an answer that lacks one of them, or not at all.             *)
(***************************************************************************)
Tokens == {Str(<<97>>), Str(<<98>>)}
Responses ==
    [err : {FALSE}, access_token : Tokens \cup {NoToken}, expires_in : 0..MaxExpiresIn]
    \cup {[err |-> TRUE, access_token |-> NoToken, expires_in |-> 0]}

InitToken == InitChunks

NextToken ==
    \/ \E creds \in BOOLEAN, resp \in Responses : GetOrRefreshToken(1, creds, resp)
    \/ \E creds \in BOOLEAN, resp \in Responses : RefreshDropboxToken(1, creds, resp)
    \/ Tick

SpecToken == InitToken /\ [][NextToken]_vars

(***************************************************************************)
(* The properties of the Storage Contract.                                 *)
(***************************************************************************)
\* the calls thread t has completed last (see Remember)
Last(t) == hist[t][3]
Prev(t) == hist[t][2]
First(t) == hist[t][1]

\* what is stored for a path: its entry of the cache, or else the remote
\* object
Stored(path) ==
    IF DictHas(cache, path) THEN ToBytes(DictGet(cache, path)) ELSE remote[path]

\* write(path, data, Overwrite) followed by read(path, mode), made by
\* thread t in the current state
OverwriteThenRead(t, path, data, mode) ==
    Then(Method(Self(t, NoFault), kind, "write",
                Args(path, data, ModeOf("w", data), FALSE, 0)),
         LAMBDA s1 : Method(s1, kind, "read_rest",
                            Args(path, None, mode, s1.use_cache, 0)))

\* C1: a read in the matching text/binary mode that follows an overwrite
\* of the same path returns exactly the content that was written, on each
\* adapter, with caching enabled or disabled.
C1_RoundTrip ==
    \A t \in Threads :
        (/\ Prev(t).op = "write" /\ IsOverwrite(Prev(t).mode)
         /\ TypeMatches(Prev(t).data, Prev(t).mode)
         /\ Last(t).op = "read" /\ Last(t).path = Prev(t).path
         /\ TypeMatches(Prev(t).data, Last(t).mode))
        => (Last(t).st = "ok" /\ Last(t).ret = Prev(t).data)

\* the S3 adapter without cache has stored bytes with "wb" and the read
\* with "rb" that follows has not returned them
C1_BinaryReadOfS3 ==
    /\ kind = "s3" /\ ~use_cache
    /\ Prev(1).op = "write" /\ Prev(1).mode = {"w", "b"}
    /\ Last(1).op = "read" /\ Last(1).mode = {"r", "b"}
    /\ remote["f"] = Prev(1).data
    /\ Last(1).ret # Prev(1).data

\* C2: overwrite with a, append b of the same type (mode "a" for text, "ab"
\* for bytes), read: the read returns what the read of write(a+b, Overwrite);
\* read returns.
C2_AppendLaw ==
    \A t \in Threads :
        (/\ First(t).op = "write" /\ IsOverwrite(First(t).mode)
         /\ TypeMatches(First(t).data, First(t).mode)
         /\ Prev(t).op = "write" /\ IsAppend(Prev(t).mode)
         /\ TypeMatches(Prev(t).data, Prev(t).mode)
         /\ Prev(t).data.t = First(t).data.t
         /\ Last(t).op = "read" /\ Last(t).path = Prev(t).path
         /\ TypeMatches(First(t).data, Last(t).mode))
        => (/\ Last(t).st = OverwriteThenRead(t, Last(t).path,
                                Concat(First(t).data, Prev(t).data), Last(t).mode).st
            /\ Last(t).ret = OverwriteThenRead(t, Last(t).path,
                                Concat(First(t).data, Prev(t).data), Last(t).mode).v)

\* the S3 adapter has taken an append of bytes with "ab" for an overwrite:
\* the read returns the appended bytes alone
C2_BinaryAppendOfS3 ==
    /\ kind = "s3"
    /\ First(1).op = "write" /\ First(1).mode = {"w", "b"}
    /\ Prev(1).op = "write" /\ Prev(1).mode = {"a", "b"}
    /\ Last(1).op = "read" /\ Last(1).st = "ok"
    /\ Last(1).ret = Prev(1).data

\* C3: with caching enabled, an overwrite and the read of the same path
\* that follows it count no remote call and leave the remote store as it
\* was.
C3_CacheTransparency ==
    \A t \in Threads :
        (/\ Prev(t).op = "write" /\ IsOverwrite(Prev(t).mode) /\ Prev(t).uc0
         /\ Last(t).op = "read" /\ Last(t).path = Prev(t).path /\ Last(t).uc0)
        => (/\ Prev(t).dn = 0 /\ ~Prev(t).dirty
            /\ Last(t).dn = 0 /\ ~Last(t).dirty)

\* with a logger, a cached overwrite has counted a remote call (the download
\* of the log file its log line is appended to) and the read has returned
\* the data from the cache
C3_LogLineDownloadsLogFile ==
    /\ log_level # NoLogger
    /\ Prev(1).op = "write" /\ IsOverwrite(Prev(1).mode) /\ Prev(1).uc0
    /\ Last(1).op = "read" /\ Last(1).uc0 /\ Last(1).ret = Prev(1).data
    /\ Prev(1).dn > 0

\* C4: when cleanup() has returned on an adapter that had caching enabled,
\* the cache is empty and every path that was in the cache when it began is
\* stored remotely with the content it had in the cache.
C4_FlushCompleteness ==
    \A t \in Threads :
        (/\ pc[t] = "idle" /\ Last(t).op = "flush" /\ Last(t).st = "ok"
         /\ Last(t).uc0)
        => (/\ cache = <<>>
            /\ \A i \in 1..Len(Last(t).items) :
                   remote[Last(t).items[i].k] = ToBytes(Last(t).items[i].v))

\* cleanup() has returned, the cache is empty and a path that was in it is
\* not stored remotely
C4_FlushLosesData ==
    /\ pc[1] = "idle" /\ Last(1).op = "flush" /\ Last(1).st = "ok" /\ Last(1).uc0
    /\ cache = <<>>
    /\ \E i \in 1..Len(Last(1).items) : remote[Last(1).items[i].k] = None

\* C5: a read that begins after an overwrite of its path has returned, with
\* no write to the path issued since, returns the data of that overwrite,
\* also while another thread runs cleanup().
C5_ReadYourWrites ==
    \A t \in Threads :
        (Last(t).op = "read" /\ Last(t).exp # None /\ Last(t).expok)
        => (Last(t).st = "ok" /\ Last(t).ret = Last(t).exp)

\* the read of a path whose overwrite had returned has found no file:
\* cleanup() on the other thread has cleared the cache
C5_FlushDropsWrite ==
    /\ Last(1).op = "read" /\ Last(1).exp # None /\ Last(1).expok
    /\ Last(1).st = "FileNotFoundError"
    /\ Last(2).op = "flush" /\ Last(2).st = "ok"

\* C6: no thread reads or writes the cache dict without holding the lock.
C6_LockDiscipline == unlocked = FALSE

\* a thread has touched the cache while the other thread held the lock
C6_TouchUnderForeignLock ==
    /\ unlocked /\ lock = 2 /\ pc[2] = "flush_items"
    /\ Last(1).op \in {"read", "write"} /\ pc[1] = "idle"

\* C7: cleanup() with caching enabled, a non-empty cache and a logger that
\* writes through the adapter never waits for the lock that its own thread
\* holds.
C7_FlushNeverSelfDeadlocks ==
    \A t \in Threads :
        (/\ call[t].op = "flush" /\ call[t].uc0 /\ call[t].items # <<>>
         /\ log_level # NoLogger)
        => pc[t] # "blocked"

\* flush_cache waits for ever for the lock it holds
C7_FlushBlocked ==
    /\ kind = "s3" /\ pc[1] = "blocked" /\ call[1].op = "flush" /\ lock = 1

\* C8: when a flush that began with caching enabled has ended, by a return
\* or by an exception of an upload, caching is enabled.
C8_CachingReenabled ==
    \A t \in Threads :
        (pc[t] = "idle" /\ Last(t).op = "flush" /\ Last(t).uc0) => use_cache

\* an upload has raised out of the flush and caching is left disabled
C8_FlushLeavesCachingOff ==
    /\ pc[1] = "idle" /\ Last(1).op = "flush" /\ Last(1).uc0
    /\ Last(1).st = "ApiError" /\ ~use_cache

\* C9: a step of a flush in progress, the log lines it writes included,
\* inserts no entry into the cache and updates none.
C9_FlushBypassesCache ==
    [][\A t \in Threads :
          (pc[t] = "flush_items" /\ (pc'[t] # pc[t] \/ call'[t] # call[t]))
          => \A i \in 1..Len(cache') : \E j \in 1..Len(cache) : cache'[i] = cache[j]
      ]_vars

\* flush_cache is in progress with caching enabled, and the log file in
\* the cache has the line of the flush
C9_FlushLogsIntoCache ==
    /\ kind = "s3" /\ call[1].op = "flush" /\ use_cache
    /\ DictHas(cache, LogPath) /\ DictHas(call[1].items, LogPath)
    /\ Len(DictGet(cache, LogPath).v) > Len(DictGet(call[1].items, LogPath).v)

\* C10: a create-if-absent write that follows a successful create-if-absent
\* write of other content to the same path raises FileExistsError, and the
\* content of the first write stays stored.
C10_CreateIfAbsent ==
    \A t \in Threads :
        (/\ pc[t] = "idle"
         /\ Prev(t).op = "write" /\ IsCreate(Prev(t).mode)
         /\ TypeMatches(Prev(t).data, Prev(t).mode)
         /\ Last(t).op = "write" /\ IsCreate(Last(t).mode)
         /\ TypeMatches(Last(t).data, Last(t).mode)
         /\ Last(t).path = Prev(t).path /\ Last(t).data # Prev(t).data)
        => (/\ Last(t).st = "FileExistsError"
            /\ Stored(Last(t).path) = ToBytes(Prev(t).data))

\* the second create-if-absent write to the S3 adapter has returned and
\* its content has replaced that of the first
C10_SecondCreateOverwrites ==
    /\ kind = "s3" /\ pc[1] = "idle"
    /\ Prev(1).op = "write" /\ IsCreate(Prev(1).mode)
    /\ Last(1).op = "write" /\ IsCreate(Last(1).mode) /\ Last(1).st = "ok"
    /\ Last(1).data # Prev(1).data
    /\ Stored("f") = ToBytes(Last(1).data)

\* C11: for a path absent from the cache and the store, on every adapter,
\* read raises FileNotFoundError, exists returns False and delete returns
\* without raising (the remote store answering every request).
C11_NotFoundSemantics ==
    \A t \in Threads :
        (Last(t).abs0 /\ ~Last(t).faulted)
        => /\ Last(t).op = "read" => Last(t).st = "FileNotFoundError"
           /\ Last(t).op = "exists" => (Last(t).st = "ok" /\ Last(t).ret = False)
           /\ Last(t).op = "delete" => Last(t).st = "ok"

\* the Dropbox adapter, with caching and a logger at DEBUG and no log file
\* stored yet, has been asked whether an absent path exists, and has raised
C11_ExistsRaises ==
    /\ kind = "dbx" /\ use_cache /\ log_level = LOG_DEBUG
    /\ Last(1).op = "exists" /\ Last(1).abs0 /\ ~Last(1).faulted
    /\ Last(1).st = "FileNotFoundError"

\* a call whose upload session was committed
ChunkedCompleted(l) ==
    /\ l.op = "write" /\ l.st = "ok"
    /\ Len(l.sent) > 0 /\ l.sent[Len(l.sent)].rq = "finish"

\* C12: a completed chunked upload leaves at the path exactly the bytes that a completed single-request upload (files_upload) of the same payload leaves there, for payload lengths below, equal to and above the limit and for multiples and non-multiples of the chunk size.
C12_ChunkedEqualsSingle ==
    \A t \in Threads :
        ChunkedCompleted(Last(t))
        => remote[Last(t).path]
           = Upload(Self(t, NoFault), Last(t).path, Last(t).data).s.remote[Last(t).path]

\* a chunked upload of several appends has completed for a payload above the
\* limit whose length is no multiple of the chunk size
C12_ChunkedAboveLimit ==
    /\ ChunkedCompleted(Last(1))
    /\ ByteLen(Last(1).data) > InitialLargeFileLimit
    /\ ByteLen(Last(1).data) % ChunkSize # 0
    /\ Len(Last(1).sent) > 3
    /\ remote[Last(1).path] = Last(1).data

\* the bytes the requests before the i-th have carried
RECURSIVE Transmitted(_, _)
Transmitted(sent, i) ==
    IF i <= 1 THEN <<>> ELSE Transmitted(sent, i - 1) \o sent[i - 1].chunk

\* C13: a chunked upload that completes issues one session start carrying the first chunk, then one append per following chunk in order, each with a cursor offset equal to the number of bytes already transmitted, then exactly one commit with an empty payload, overwrite mode, the destination path and a cursor offset equal to the payload's byte length.
C13_ChunkedRequestSequence ==
    \A t \in Threads :
        ChunkedCompleted(Last(t))
        => LET sent == Last(t).sent
               n == Len(sent)
               bytes == ToBytes(Last(t).data).v
           IN  /\ n >= 2
               /\ sent[1].rq = "start"
               /\ sent[1].chunk = SubSeq(bytes, 1, Min(ChunkSize, Len(bytes)))
               /\ \A i \in 2..(n - 1) :
                     /\ sent[i].rq = "append"
                     /\ sent[i].off = Len(Transmitted(sent, i))
                     /\ sent[i].off = (i - 1) * ChunkSize
                     /\ sent[i].chunk
                        = SubSeq(bytes, sent[i].off + 1,
                                 Min(sent[i].off + ChunkSize, Len(bytes)))
                     /\ Len(sent[i].chunk) > 0
               /\ Transmitted(sent, n) = bytes
               /\ sent[n] = [rq |-> "finish", chunk |-> <<>>, off |-> Len(bytes),
                             path |-> Last(t).path, wmode |-> "overwrite"]

\* a chunked upload has completed after a time-out of files_upload, for a
\* text whose letter of two bytes was split between the start and the append
C13_ChunkedAfterTimeout ==
    /\ ChunkedCompleted(Last(1))
    /\ Last(1).faulted
    /\ IsStr(Last(1).data)
    /\ Len(Last(1).sent) = 3
    /\ Last(1).sent[2].off = ChunkSize
    /\ Last(1).sent[2].chunk = <<169, 97>>

\* C14: on each remote adapter a read that returns yields text when the mode does not request binary and bytes when it does, whether the content comes from the cache or from the remote store.
C14_ReadTypeFollowsMode ==
    \A t \in Threads :
        (kind # "local" /\ Last(t).op = "read" /\ Last(t).st = "ok")
        => IF "b" \in Last(t).mode THEN IsBytes(Last(t).ret) ELSE IsStr(Last(t).ret)

\* the S3 adapter without cache has answered a binary read, the remote store
\* answering every request, with text
C14_BinaryReadReturnsText ==
    /\ kind = "s3" /\ ~use_cache
    /\ Last(1).op = "read" /\ Last(1).st = "ok" /\ ~Last(1).faulted
    /\ "b" \in Last(1).mode
    /\ IsStr(Last(1).ret)

\* C15: read fails with FileNotFoundError only when the path is absent from both the cache and the remote store; a backend failure of another kind is propagated as that failure and is not reported as not found.
C15_NotFoundOnlyWhenAbsent ==
    \A t \in Threads :
        (Last(t).op = "read" /\ Last(t).st = "FileNotFoundError") => Last(t).abs0

\* the S3 adapter without cache and logger has reported a stored object as
\* not found after get_object failed with a ClientError
C15_S3ClientErrorAsNotFound ==
    /\ kind = "s3" /\ ~use_cache /\ log_level = NoLogger
    /\ remote["f"] = Bytes(<<97>>)
    /\ Last(1).op = "read" /\ Last(1).path = "f" /\ Last(1).faulted
    /\ Last(1).st = "FileNotFoundError"

\* C16: on every remote adapter a write whose mode's binary flag disagrees with the type of the data fails with a type mismatch (ValueError or TypeError) and changes neither the cache nor the remote store.
C16_TypeMismatchRejected ==
    \A t \in Threads :
        (kind # "local" /\ Last(t).op = "write"
            /\ ~TypeMatches(Last(t).data, Last(t).mode))
        => /\ Last(t).st \in {"ValueError", "TypeError"}
           /\ ~Last(t).cchg
           /\ ~Last(t).dirty

\* the Dropbox adapter without cache has stored bytes written in text mode
C16_DropboxStoresMismatch ==
    /\ kind = "dbx" /\ ~use_cache /\ log_level = NoLogger
    /\ Last(1).op = "write" /\ Last(1).mode = {"w"} /\ IsBytes(Last(1).data)
    /\ ~Last(1).faulted
    /\ Last(1).st = "ok"
    /\ remote[Last(1).path] = Last(1).data

\* C17: delete returns without raising when the path is already absent, and raises the backend's error when the backend reports a failure other than not-found.
C17_DeletePropagatesErrors ==
    \A t \in Threads :
        Last(t).op = "delete"
        => /\ (Last(t).abs0 /\ Last(t).fk = "none") => Last(t).st = "ok"
           /\ Last(t).fk \in {"ApiOther", "ConnErr", "Timeout"} => Last(t).st # "ok"

\* delete has returned normally although the remote store refused to delete
\* the stored file for another reason than not-found
C17_DeleteSwallowsError ==
    /\ kind \in {"dbx", "s3"} /\ log_level = NoLogger
    /\ Last(1).op = "delete" /\ Last(1).fk = "ApiOther"
    /\ Last(1).st = "ok"
    /\ remote[Last(1).path] = Bytes(<<97>>)

\* the content written by the call l is what the path holds now, in the cache
\* or else in the remote store (at its end, when the call appended)
WrittenStored(l) ==
    LET want == ToBytes(l.data).v
        have == IF DictHas(cache, l.path) THEN ToBytes(DictGet(cache, l.path)).v
                ELSE remote[l.path].v
    IN  IF IsAppend(l.mode)
        THEN /\ Len(have) >= Len(want)
             /\ SubSeq(have, Len(have) - Len(want) + 1, Len(have)) = want
        ELSE have = want

\* C18: a write either returns normally with the written content stored for the path, in the cache or in the remote store, or raises; no backend error other than path-not-found is swallowed so that write returns normally with nothing stored.
C18_WriteStoresOrRaises ==
    \A t \in Threads :
        (pc[t] = "idle" /\ Last(t).op = "write" /\ Last(t).st = "ok")
        => WrittenStored(Last(t))

\* the S3 adapter without cache has returned normally from a write that
\* put_object refused: the path holds nothing
C18_S3WriteSwallowsError ==
    /\ kind = "s3" /\ ~use_cache /\ log_level = NoLogger
    /\ pc[1] = "idle"
    /\ Last(1).op = "write" /\ IsOverwrite(Last(1).mode) /\ Last(1).fk = "ApiOther"
    /\ Last(1).st = "ok"
    /\ remote[Last(1).path] = None

\* C19: a cleanup made while caching is disabled, or made immediately after a completed cleanup, issues no remote write and leaves the cache and the remote store unchanged.
C19_CleanupRepeatable ==
    \A t \in Threads :
        /\ Last(t).op = "flush" /\ Last(t).st = "ok"
        /\ ~Last(t).uc0 \/ (Prev(t).op = "flush" /\ Prev(t).st = "ok")
        => /\ Last(t).dn = 0
           /\ ~Last(t).dirty
           /\ ~Last(t).cchg

\* a second cleanup of the Dropbox adapter, right after a completed one, has
\* changed the remote store
C19_SecondCleanupWrites ==
    /\ kind = "dbx"
    /\ Prev(1).op = "flush" /\ Prev(1).st = "ok"
    /\ Last(1).op = "flush" /\ Last(1).st = "ok" /\ Last(1).uc0
    /\ Last(1).dirty

\* C20: get_size never raises; when the path is not in the cache and the metadata query fails or does not describe a stored file, it returns 0.
C20_GetSizeNeverRaises ==
    \A t \in Threads :
        (pc[t] = "idle" /\ Last(t).op = "get_size")
        => /\ Last(t).st = "ok"
           /\ (/\ ~DictHas(cache, Last(t).path)
               /\ Last(t).fk # "none" \/ remote[Last(t).path] \in {None, Folder})
              => Last(t).ret = IntVal(0)

\* get_size of the Dropbox adapter has raised TypeError for a path that holds
\* a folder, the remote store answering every request
C20_GetSizeRaisesForFolder ==
    /\ kind = "dbx" /\ log_level = NoLogger
    /\ remote["f"] = Folder
    /\ Last(1).op = "get_size" /\ Last(1).path = "f" /\ Last(1).fk = "none"
    /\ Last(1).st = "TypeError"

\* C21: makedirs succeeds as a no-op when the directory already exists, on the local adapter and on the Dropbox adapter.
C21_MakedirsExistingIsNoOp ==
    \A t \in Threads :
        (/\ kind \in {"local", "dbx"}
         /\ Last(t).op = "makedirs" /\ Last(t).fk = "none"
         /\ pc[t] = "idle" /\ remote[Last(t).path] = Folder /\ ~Last(t).dirty)
        => Last(t).st = "ok"

\* makedirs of the local adapter has raised FileExistsError for a directory
\* that exists
C21_LocalMakedirsRaises ==
    /\ kind = "local"
    /\ remote["f"] = Folder
    /\ Last(1).op = "makedirs" /\ Last(1).path = "f" /\ ~Last(1).dirty
    /\ Last(1).st = "FileExistsError"

\* C22: a call for the token that returns yields a non-empty credential that is unexpired at the time of return: the stored one when it has not expired, otherwise a newly fetched one; never an empty or missing value.
C22_TokenReturnedIsValid ==
    \A t \in Threads :
        (Last(t).op \in TokenOps /\ Last(t).st = "ok")
        => /\ IsStr(Last(t).ret) /\ Last(t).ret # NoToken
           /\ Len(token_file) > 0
           /\ token_file[1].access_token = Last(t).ret
           /\ Last(t).at < token_file[1].expires_at

\* get_or_refresh_dropbox_token has returned the empty string after the token
\* endpoint did not answer
C22_EmptyTokenReturned ==
    /\ Last(1).op = "get_or_refresh_dropbox_token"
    /\ Last(1).st = "ok"
    /\ Last(1).ret = NoToken

\* C23: on a remote adapter the call counter equals the number of requests the adapter issued to the backend: every call adds to num_calls the number of requests it sent, successful or failed, of any kind.
C23_CounterCountsRequests ==
    \A t \in Threads :
        (kind # "local" /\ Last(t).op # "none") => Last(t).dn = Last(t).nreq

\* get_size of the Dropbox adapter has queried the metadata of a stored file,
\* the request was answered, and num_calls is what it was
C23_GetSizeNotCounted ==
    /\ kind = "dbx" /\ log_level = NoLogger
    /\ Last(1).op = "get_size" /\ Last(1).st = "ok" /\ Last(1).fk = "none"
    /\ Last(1).ret = IntVal(1)
    /\ Last(1).nreq = 1
    /\ Last(1).dn = 0

\* C24: an append to a path absent from both the cache and the remote store returns normally, and a following read of the path returns the appended content, with caching enabled and with caching disabled (the remote store answering every request).
C24_AppendToAbsentPath ==
    \A t \in Threads :
        /\ (/\ Last(t).op = "write" /\ IsAppend(Last(t).mode) /\ Last(t).abs0
            /\ TypeMatches(Last(t).data, Last(t).mode) /\ Last(t).fk = "none")
           => Last(t).st = "ok"
        /\ (/\ Last(t).op = "read" /\ Last(t).fk = "none"
            /\ Prev(t).op = "write" /\ IsAppend(Prev(t).mode) /\ Prev(t).abs0
            /\ TypeMatches(Prev(t).data, Prev(t).mode)
            /\ ("b" \in Last(t).mode) = ("b" \in Prev(t).mode))
           => (Last(t).st = "ok" /\ Last(t).ret = Prev(t).data)

\* with caching enabled and no logger, the append of the Dropbox adapter to
\* an absent path has raised FileNotFoundError
C24_CachedAppendRaises ==
    /\ kind = "dbx" /\ use_cache /\ log_level = NoLogger
    /\ Last(1).op = "write" /\ IsAppend(Last(1).mode) /\ Last(1).abs0
    /\ TypeMatches(Last(1).data, Last(1).mode) /\ Last(1).fk = "none"
    /\ Last(1).st = "FileNotFoundError"

\* C25: the Dropbox adapter never issues a single-request upload (files_upload, overwriting or create-only) for a payload longer than its large_file_limit at that moment, in an overwrite, an append without cache or a flush.
C25_NoSingleRequestAboveLimit ==
    kind = "dbx" =>
        \A t \in Threads : \A c \in {Last(t), call[t]} : \A i \in DOMAIN c.ups :
            c.ups[i].rq \in {"upload", "add"} => ~c.ups[i].over

\* an append without cache has sent the combined content in one files_upload although it is longer than large_file_limit
C25_AppendAboveLimit ==
    /\ kind = "dbx" /\ log_level = NoLogger
    /\ Last(1).op = "write" /\ IsAppend(Last(1).mode) /\ ~Last(1).uc0
    /\ Last(1).st = "ok" /\ Last(1).fk = "none"
    /\ \E i \in DOMAIN Last(1).ups :
           Last(1).ups[i].rq = "upload" /\ Last(1).ups[i].over

C27_ChunkSizeBelowLimit ==
    kind = "dbx" => ChunkSize < large_file_limit

\* the files_upload of a payload of 1 MiB has timed out and the limit is negative
C27_NegativeLimit ==
    /\ kind = "dbx"
    /\ Last(1).op = "write" /\ Last(1).fk = "Timeout"
    /\ ByteLen(Last(1).data) = 1 * MiB
    /\ Len(Last(1).ups) = 2 /\ Last(1).ups[1].hit
    /\ large_file_limit < 0

\* C28: during a chunked upload, after the session start, after every append and when the upload has ended on an error, the remote store holds for the destination path the content it had before the upload began; it holds the complete payload once the commit has succeeded.
C28_NoPartialCommit ==
    \A t \in Threads :
        /\ pc[t] = "session" => remote[call[t].path] = call[t].before
        /\ (Last(t).op = "write" /\ Last(t).ups # <<>> /\ Last(t).ups[1].rq = "start")
           => remote[Last(t).path] = IF ChunkedCompleted(Last(t))
                                     THEN ToBytes(Last(t).data)
                                     ELSE Last(t).before

\* a session has received several chunks for a path that holds another payload, and the path still holds it
C28_MidSessionOldContent ==
    /\ pc[1] = "session" /\ call[1].idx > 2 * ChunkSize
    /\ Len(call[1].sent) > 2
    /\ call[1].before # None /\ call[1].before # ToBytes(call[1].data)
    /\ remote[call[1].path] = call[1].before

\* the requests of kind rqs among the upload requests of the call c
Attempts(c, rqs) == {i \in DOMAIN c.ups : c.ups[i].rq \in rqs}

\* C29: a write call of the Dropbox adapter makes at most one single-request upload attempt and at most one chunked-upload attempt, whatever the backend answers.
C29_OneAttemptEach ==
    \A t \in Threads : \A c \in {Last(t), call[t]} :
        (kind = "dbx" /\ c.op = "write")
        => /\ Cardinality(Attempts(c, {"upload", "add"})) <= 1
           /\ Cardinality(Attempts(c, {"start"})) <= 1

\* C29 (amended): a write call of the Dropbox adapter makes at most two single-request upload attempts, the second only as the create-only upload after the overwriting upload was answered path-not-found, at most one chunked-upload attempt, and never more than two attempts in all.
C29_BoundedAttempts ==
    \A t \in Threads : \A c \in {Last(t), call[t]} :
        (kind = "dbx" /\ c.op = "write")
        => /\ Cardinality(Attempts(c, {"upload"})) <= 1
           /\ Cardinality(Attempts(c, {"add"})) <= 1
           /\ Cardinality(Attempts(c, {"start"})) <= 1
           /\ Len(c.ups) <= 2
           /\ Len(c.ups) = 2
              => /\ c.ups[1].rq = "upload" /\ c.ups[1].hit
                 /\ \/ c.ups[2].rq = "add" /\ c.fk = "PathNotFound"
                    \/ c.ups[2].rq = "start" /\ c.fk = "Timeout"

\* an overwrite was answered path-not-found and the call has sent the payload again as a create-only upload
C29_OverwriteThenCreate ==
    /\ kind = "dbx" /\ Last(1).op = "write" /\ IsOverwrite(Last(1).mode)
    /\ Last(1).fk = "PathNotFound" /\ Last(1).st = "ok"
    /\ Len(Last(1).ups) = 2
    /\ Last(1).ups[1].rq = "upload" /\ Last(1).ups[2].rq = "add"

\* the overwriting files_upload of the write call c was answered path-not-found
NotFoundOnOverwrite(c) ==
    /\ kind = "dbx" /\ c.op = "write" /\ ~IsAppend(c.mode)
    /\ c.fk = "PathNotFound"
    /\ c.ups # <<>> /\ c.ups[1].rq = "upload" /\ c.ups[1].hit

\* C30: when the overwriting files_upload of a write is answered path-not-found for a path the store does not hold, write sends the content as a create-only upload and returns normally, and the path then holds that content.
C30_NotFoundCreates ==
    \A t \in Threads :
        (NotFoundOnOverwrite(Last(t)) /\ Last(t).abs0)
        => /\ Last(t).st = "ok"
           /\ Len(Last(t).ups) = 2 /\ Last(t).ups[2].rq = "add"
           /\ Last(t).ups[2].path = Last(t).path
           /\ remote[Last(t).path] = ToBytes(Last(t).data)

\* an overwrite of an absent path was answered path-not-found and the path holds the text as bytes
C30_CreatedAfterNotFound ==
    /\ NotFoundOnOverwrite(Last(1)) /\ Last(1).abs0
    /\ IsOverwrite(Last(1).mode) /\ IsStr(Last(1).data)
    /\ Last(1).st = "ok" /\ Last(1).dn = 1
    /\ remote[Last(1).path] = ToBytes(Last(1).data)

\* a read of the path of the call l, made in the state as it is, by thread t
ReadAgain(t, l) ==
    Method(Self(t, NoFault), kind, "read_rest", Args(l.path, None, l.mode, use_cache, 0))

\* C31: with caching enabled on a remote adapter, a read that misses the cache and returns has fetched the content from the remote store and stored it in the cache, so that a read of the same path that follows immediately sends no request to the remote store.
C31_ReadThroughCaches ==
    \A t \in Threads :
        (/\ kind \in {"dbx", "s3"} /\ pc[t] = "idle"
         /\ Last(t).op = "read" /\ Last(t).uc0 /\ use_cache
         /\ Last(t).st = "ok" /\ Last(t).nreq > 0)
        => /\ DictHas(cache, Last(t).path)
           /\ ReadAgain(t, Last(t)).s.rc = 0

\* a read of the S3 adapter with caching enabled has fetched a stored object, and the cache does not hold the path
C31_S3ReadNotCached ==
    /\ kind = "s3" /\ use_cache /\ log_level = NoLogger /\ pc[1] = "idle"
    /\ Last(1).op = "read" /\ Last(1).uc0 /\ Last(1).st = "ok" /\ Last(1).nreq = 1
    /\ ~DictHas(cache, Last(1).path)
    /\ ReadAgain(1, Last(1)).s.rc = 1

\* the call l is a cached append, by thread t, that follows a cached overwrite of the same path with content of the other type; bytes appended to text are valid UTF-8
MismatchedAppend(t, l) ==
    /\ kind \in {"dbx", "s3"}
    /\ l.op = "write" /\ IsAppend(l.mode) /\ l.uc0
    /\ Prev(t).op = "write" /\ IsOverwrite(Prev(t).mode) /\ Prev(t).uc0
    /\ Prev(t).path = l.path
    /\ Prev(t).data.t # l.data.t
    /\ IsBytes(l.data) => DecodeSeq(l.data.v).ok

\* C32: with caching enabled, an append whose new content has another representation than the existing content (one text, one bytes) converts the new content to the representation of the existing content and stores the combination with the type of the existing content; on each remote adapter it does not fail because of the mismatch.
C32_ExistingTypeWins ==
    \A t \in Threads :
        MismatchedAppend(t, Last(t))
        => /\ Last(t).st = "ok"
           /\ DictHas(cache, Last(t).path)
           /\ DictGet(cache, Last(t).path).t = Prev(t).data.t
           /\ DictGet(cache, Last(t).path)
              = Concat(Prev(t).data,
                       IF IsStr(Prev(t).data) THEN Str(DecodeSeq(Last(t).data.v).v)
                       ELSE ToBytes(Last(t).data))

\* the S3 adapter has refused to append text to cached bytes
C32_S3MismatchRaises ==
    /\ kind = "s3" /\ log_level = NoLogger
    /\ MismatchedAppend(1, Last(1))
    /\ IsStr(Last(1).data) /\ Last(1).mode = {"a"}
    /\ Last(1).st = "ValueError"
    /\ DictGet(cache, Last(1).path) = Prev(1).data

FlushedItem(t, path) ==
    LET s0 == IF kind = "dbx"
              THEN Method(Self(t, NoFault), kind, "flush_begin",
                          Args("", None, {}, FALSE, 0)).s
              ELSE Self(t, NoFault)
    IN  Method(s0, kind, "flush_item",
               Args(path, DictGet(cache, path), {}, FALSE, 0)).s.remote[path]

\* C34: with caching enabled and the path in the cache, get_size returns the byte length of the cached content, of its UTF-8 encoding when it is text, and sends no request to the remote store; it is the size the object has in the remote store after a flush that stores it.
C34_CachedSizeIsByteLength ==
    \A t \in Threads :
        (/\ kind \in {"dbx", "s3"} /\ pc[t] = "idle" /\ use_cache
         /\ Last(t).op = "get_size" /\ Last(t).uc0
         /\ DictHas(cache, Last(t).path))
        => /\ Last(t).st = "ok" /\ Last(t).nreq = 0
           /\ Last(t).ret = IntVal(Len(ToBytes(DictGet(cache, Last(t).path)).v))
           /\ IsBytes(FlushedItem(t, Last(t).path))
              => Last(t).ret = IntVal(Len(FlushedItem(t, Last(t).path).v))

\* get_size has returned 3 for a cached text of two characters, one of them of two bytes, while the remote store would have failed the request
C34_SizeOfCachedText ==
    /\ pc[1] = "idle" /\ use_cache /\ Last(1).op = "get_size" /\ Last(1).uc0
    /\ DictHas(cache, Last(1).path)
    /\ IsStr(DictGet(cache, Last(1).path))
    /\ Len(DictGet(cache, Last(1).path).v) = 2
    /\ Last(1).ret = IntVal(3)
    /\ remote[Last(1).path] # FlushedItem(1, Last(1).path)

\* the call l of thread t is a cached append to a path whose cached content, written by the call before, is neither text nor bytes
AppendToUntyped(t, l) ==
    /\ kind = "dbx" /\ pc[t] = "idle"
    /\ l.op = "write" /\ IsAppend(l.mode) /\ l.uc0
    /\ Prev(t).op = "write" /\ IsOverwrite(Prev(t).mode) /\ Prev(t).uc0
    /\ Prev(t).path = l.path /\ Prev(t).data \in Untyped

\* C35: a cached append to a path whose existing content is neither text nor bytes does not fail and stores just the new content, unmodified, for the path.
C35_UntypedFallsBackToNew ==
    \A t \in Threads :
        AppendToUntyped(t, Last(t))
        => /\ Last(t).st = "ok"
           /\ DictHas(cache, Last(t).path)
           /\ DictGet(cache, Last(t).path) = Last(t).data

\* an append of text to a cached integer has failed with TypeError and the cache still holds the integer
C35_AppendToIntegerFails ==
    /\ AppendToUntyped(1, Last(1))
    /\ Prev(1).data = IntVal(7) /\ IsStr(Last(1).data)
    /\ Last(1).st = "TypeError"
    /\ DictGet(cache, Last(1).path) = IntVal(7)

\* an exists of the path of the call l, made in the state as it is, by thread t
ExistsAgain(t, l) ==
    Method(Self(t, NoFault), kind, "exists", Args(l.path, None, {}, use_cache, 0))

\* C36: after a delete on a remote adapter has returned without error, exists returns false for the path and a read of it raises FileNotFoundError, also when the path is in the cache; a later flush does not create the path in the remote store again.
C36_DeletedIsGone ==
    \A t \in Threads :
        (/\ kind \in {"dbx", "s3"} /\ pc[t] = "idle"
         /\ Last(t).op = "delete" /\ Last(t).st = "ok")
        => /\ ExistsAgain(t, Last(t)).v = False
           /\ ReadAgain(t, [Last(t) EXCEPT !.mode = {"r"}]).st = "FileNotFoundError"
           /\ DictHas(cache, Last(t).path) => FlushedItem(t, Last(t).path) = None

\* a delete of a cached path has removed it from the remote store without a failure; the path is still in the cache, exists answers true, a read returns the cached content and a flush would upload it again
C36_DeletedStillCached ==
    /\ kind \in {"dbx", "s3"} /\ pc[1] = "idle" /\ use_cache
    /\ Last(1).op = "delete" /\ Last(1).st = "ok" /\ ~Last(1).faulted
    /\ Last(1).uc0 /\ Last(1).dirty
    /\ remote[Last(1).path] = None
    /\ DictHas(cache, Last(1).path)
    /\ ExistsAgain(1, Last(1)).v = True
    /\ ReadAgain(1, [Last(1) EXCEPT !.mode = {"r"}]).v = DictGet(cache, Last(1).path)
    /\ IsBytes(FlushedItem(1, Last(1).path))

\* C37: a flush removes from the cache only entries whose content it has uploaded: in every interleaving with a writer thread, every entry that a step of a flush removes from the cache is stored in the remote store with the content it had in the cache.
C37_FlushClearsOnlyUploaded ==
    [][\A t \in Threads :
          (call[t].op = "flush" /\ pc[t] = "flush_items" /\ pc'[t] = "idle")
          => \A i \in 1..Len(cache) :
                 ~DictHas(cache', cache[i].k)
                 => remote'[cache[i].k] = ToBytes(cache[i].v)
      ]_vars

\* the overwrite of thread 1 has put its data into the cache after the flush of thread 2 took its snapshot; the flush has returned, the cache is empty and the remote store does not hold the data
C37_WriteLostByClear ==
    /\ kind = "dbx" /\ pc[1] = "idle" /\ pc[2] = "idle"
    /\ Last(1).op = "write" /\ Last(1).st = "ok" /\ Last(1).uc0 /\ Last(1).cchg
    /\ Last(2).op = "flush" /\ Last(2).st = "ok" /\ Last(2).uc0
    /\ ~DictHas(Last(2).items, Last(1).path)
    /\ cache = <<>>
    /\ remote[Last(1).path] # ToBytes(Last(1).data)

\* the last calls of the two threads are create-if-absent writes to one path that was absent when one of them began
BothCreate ==
    /\ kind = "dbx" /\ pc[1] = "idle" /\ pc[2] = "idle"
    /\ Last(1).op = "write" /\ IsCreate(Last(1).mode)
    /\ Last(2).op = "write" /\ IsCreate(Last(2).mode)
    /\ Last(1).path = Last(2).path
    /\ Last(1).abs0 \/ Last(2).abs0

\* C38: when two threads write in create-if-absent mode to the same absent path of one Dropbox adapter, at most one call succeeds and the other raises FileExistsError, in every interleaving.
C38_OneCreatorWins ==
    BothCreate
    => /\ ~(Last(1).st = "ok" /\ Last(2).st = "ok")
       /\ Last(1).st = "ok" => Last(2).st = "FileExistsError"
       /\ Last(2).st = "ok" => Last(1).st = "FileExistsError"

\* both creators found the path absent and both returned normally with different data; the path holds the data of one of them
C38_BothCreatorsSucceed ==
    /\ BothCreate
    /\ Last(1).abs0 /\ Last(2).abs0
    /\ Last(1).st = "ok" /\ Last(2).st = "ok"
    /\ Last(1).data # Last(2).data
    /\ \/ DictHas(cache, Last(1).path)
       \/ remote[Last(1).path] \in {ToBytes(Last(1).data), ToBytes(Last(2).data)}

\* C39: in the Dropbox adapter no thread makes a blocking acquire of the lock while it holds the lock itself, in read, write, append, exists, get_size and flush, the appends to the log file that they make while the lock is held included.
C39_NoSelfAcquire ==
    kind = "dbx" => \A t \in Threads : pc[t] # "blocked"

\* exists has found its path in the cache and, holding the lock, has appended its line to the log file in the cache; it has returned and the lock is free
C39_LoggedUnderLock ==
    /\ kind = "dbx" /\ log_level = LOG_DEBUG /\ pc[1] = "idle" /\ lock = 0
    /\ Last(1).op = "exists" /\ Last(1).st = "ok" /\ Last(1).ret = True
    /\ Last(1).uc0 /\ Last(1).nreq = 0 /\ Last(1).cchg
    /\ DictHas(cache, LogPath)

\* C40: the chunking threshold of the Dropbox writer never increases: a step changes it only when a single-request upload has failed with a write timeout, and sets it strictly below the value it had.
C40_LimitOnlyFalls ==
    [][large_file_limit' # large_file_limit
       => /\ large_file_limit' < large_file_limit
          /\ \E t \in Threads :
                \/ pc[t] = "timed_out" /\ pc'[t] = "idle"
                \/ /\ pc[t] = "write_body" /\ pc'[t] = "idle"
                   /\ hist'[t][3].fk = "Timeout"
                   /\ hist'[t][3].ups # <<>> /\ hist'[t][3].ups[1].rq = "upload"
      ]_vars

\* both threads sent their payload in one request while the limit allowed it and both requests timed out; the thread with the larger payload handled its timeout last and the limit stands above the one the other thread had set
C40_LimitRaised ==
    /\ pc[1] = "idle" /\ pc[2] = "idle"
    /\ \A t \in Threads :
          /\ Last(t).op = "write" /\ Last(t).fk = "Timeout"
          /\ Last(t).ups # <<>> /\ Last(t).ups[1].rq = "upload"
    /\ \E t, u \in Threads :
          /\ ByteLen(Last(t).data) > ByteLen(Last(u).data)
          /\ large_file_limit = CalculateNewSizeLimit(ByteLen(Last(t).data))
          /\ large_file_limit > CalculateNewSizeLimit(ByteLen(Last(u).data))
          /\ ByteLen(Last(t).data) > CalculateNewSizeLimit(ByteLen(Last(u).data))
====
